---- MODULE Spec2Model ----
(***************************************************************************)
(* Discovery -> tracking -> diff -> scoring pipeline of the Hyperliquid    *)
(* trader analysis service.  Each component is a group of variables with   *)
(* its own initial predicate, actions and specification.                   *)
(***************************************************************************)
EXTENDS Integers, Sequences, FiniteSets, TLC

(***************************************************************************)
(* Bounds of the model.                                                    *)
(***************************************************************************)
\* the wall clock runs from 0 to MaxTime seconds
MaxTime == 61
\* calls to wait_if_needed issued in one run
MaxCalls == 4
\* instants read from datetime.utcnow() by the Batch Tracker in one run
MaxClock == 6
\* settings.BATCH_SIZE ranges over 1 .. MaxBatch
MaxBatch == 2
\* trade messages each discovery worker receives in one run
MaxMessages == 1
\* task messages waiting for a worker
MaxQueue == 2
\* traders in the population of one scoring pass
MaxPop == 3
\* invocations of detect_position_changes made on one pair of snapshots
MaxDiffCalls == 2
\* Sessions one entry point may hold open at once
MaxSessions == 2
\* calls of _make_request in one run
MaxRequests == 3
\* traders tracked in a run with a publisher that may raise
PubTracks == 2

(***************************************************************************)
(* Program constants.                                                      *)
(***************************************************************************)
\* RateLimiter.max_weight_per_minute
max_weight_per_minute == 1200
\* max_retries of the discovery connection loop
max_retries == 5
\* the cap of the backoff, min(60, 2 ** retry_count), in seconds
MAX_WAIT == 60
\* timedelta(minutes=1) and the literal 60 of wait_time, in seconds
WINDOW == 60
\* timedelta.seconds is the seconds component of the delta, 0 .. 86399
SECONDS_PER_DAY == 86400

\* the coroutines that may share the RateLimiter of the global client
Callers == {"c1", "c2"}
\* weights handed to wait_if_needed: the default 20 of every info query and
\* larger requests up to the cap
Weights == {20, 600, 1200}

VARIABLES
    \* ---- RateLimiter (hyperliquid_client.py) ----
    now,                  \* datetime.now(), in whole seconds
    last_reset,           \* RateLimiter.last_reset
    weight_per_minute,    \* RateLimiter.weight_per_minute
    requests_per_minute,  \* RateLimiter.requests_per_minute
    rl_callers,           \* the coroutines using the limiter in this run
    rl_pc,                \* per coroutine: "idle" or "sleeping" (in asyncio.sleep)
    rl_since,             \* per coroutine asleep: last_reset when it was suspended; else -1
    rl_slept,             \* per coroutine: its last call returned after a sleep
    rl_wake,              \* per coroutine: the time its asyncio.sleep is due
    rl_weight,            \* per coroutine: the weight argument of its suspended call
    n_calls,              \* calls issued so far
    \* history variables of the rate limiter claims
    obs_start,            \* start of the observed rolling interval, -1: not observing
    obs_sum,              \* weight admitted in [obs_start, obs_start + WINDOW)
    win_base,             \* start of the current one-minute window of admissions
    win_total,            \* weight admitted since win_base
    \* ---- persistence store (models.py), committed rows ----
    db_trader,            \* per address: "absent", "active" or "inactive" (Trader.is_active)
    db_last_tracked,      \* per trader: Trader.last_tracked_at, NULL until first tracked
    db_snaps,             \* per trader: its UserStateHistory rows, oldest first
    db_events,            \* per trader: its TradeEvent rows, oldest first
    \* ---- Batch Tracker (tracking_task.py) ----
    batch_size,           \* settings.BATCH_SIZE
    tr_clock,             \* the next instant datetime.utcnow() returns to the tracker
    tr_pc,                \* "idle", "loop" (in the for loop) or "commit"
    tr_batch,             \* batch_traders
    tr_idx,               \* position of the for loop in tr_batch
    ses_failed,           \* the Session's transaction was rolled back by a failed flush
    ses_snaps,            \* UserStateHistory rows added to the Session, uncommitted
    ses_events,           \* TradeEvent rows flushed in the Session, uncommitted
    ses_tracked,          \* traders whose last_tracked_at is set in the Session
    \* history variables of the tracker claims
    tr_outcome,           \* per trader: how its processing went in the current cycle
    tr_stamp,             \* per trader: the instant it was tracked at in the current cycle
    sel_count,            \* per trader: times selected, while every fetch succeeded
    n_cycles,             \* cycles completed, while every fetch succeeded
    steady,               \* no fetch or database failure and no new trader so far
    tr_ended,             \* how the last cycle ended: "none", "committed" or "rolledback"
    \* ---- Batch Tracker: the clearinghouse and the Event Publisher ----
    tr_coins,             \* the coins the tracked traders hold positions of
    redis_faulty,         \* redis_client.publish may raise in this run
    tr_malformed,         \* the exchange may answer with positions that lack szi
    published,            \* events published on trade_events since the cycle began
    \* history variables of the publishing and diffing claims
    pub_failed,           \* events of the current cycle whose publish raised
    tr_diffs,             \* diffs run in the current cycle: trader, snapshot compared, instant
    \* ---- Trader Registry under concurrent discovery (utils.py, discovery) ----
    traders_table,        \* the committed rows of table traders: [id, address]
    next_id,              \* the next value of the traders.id sequence
    w_impl,               \* per worker: "service" (discovery_service.py) or "task"
    w_pc,                 \* per worker: position in _process_trade_messages
    w_trades,             \* per worker: trades of the message still to process
    w_users,              \* per worker: users of the current trade still to process
    w_processed,          \* per worker: processed_addresses of the current message
    w_addr,               \* per worker: address argument of get_or_create_trader
    w_received,           \* per worker: messages received so far
    \* history variables of the registry claims
    goc_done,             \* addresses for which a get_or_create_trader call has ended
    goc_conflict,         \* some insert was refused by the unique constraint
    \* ---- Discovery Stream (discovery_service.py, discovery_task.py, tasks.py) ----
    ds_impl,              \* "service", "task" (tasks/discovery_task.py) or "legacy" (tasks.py)
    ds_pc,                \* "loop", "connecting", "subscribing", "listening", "backoff", "done"
    retry_count,          \* retry_count of the connection loop
    running,              \* WebSocketDiscoveryService.running
    ds_socket,            \* the websocket: "none", "open" or "closed"
    ds_sub,               \* subscribe messages sent on the current connection
    ds_wait_time,            \* the backoff being slept, 0 when not in backoff
    \* history variables of the discovery stream claims
    consec_fail,          \* consecutive failed connection attempts
    ds_failures,          \* connections that failed since the last one that succeeded
    ds_attempted,         \* a connection attempt was made before
    ds_waited,            \* a backoff was slept since the last connection attempt
    \* history variables of the message handling claims
    ds_last,              \* the inbound message handled last
    ds_tick,              \* flips with every inbound message handled
    ds_dropped,           \* a malformed message was dropped on the current connection
    ds_stop_pc,           \* where the run was when stop was requested, "none" before
    \* ---- Celery beat and worker (celery_app.py, process_manager.py) ----
    concurrency,          \* --concurrency of the worker: child processes of the pool
    sch_queue,            \* task messages sent by beat, not yet taken by a worker
    sch_running,          \* what each child process of the pool runs: a task or "idle"
    \* ---- Scoring Engine, Part B (leaderboard_task.py _calculate_trader_scores) ----
    sk_n,                 \* len(trader_metrics_list)
    sk_obs,               \* the trader_data whose score is followed
    sk_key,               \* how many keys of weights have been taken into the scores
    sk_values,            \* all_metrics[key] of the key taken last: one value per trader
    normalized_scores,    \* normalized_scores[key] of the key taken last, per trader
    trader_score,         \* the weighted sum so far of the trader followed
    stored_score,         \* metrics['trader_score'] of that trader, -1 before it is set
    \* ---- Scoring Engine, the pass (leaderboard_task.py task_calculate_leaderboard) ----
    lb_rows,              \* table leaderboard_metrics: trader -> its row, or NoRow
    sp_pc,                \* "idle", "partA", "partB", "save"
    sp_traders,           \* traders: the active traders the pass has queried
    sp_idx,               \* position of the for loop being run
    trader_metrics_list,  \* trader_metrics_list
    sp_failed,            \* the transaction of the pass's Session has failed
    sp_pending,           \* rows set in the Session, not committed: trader -> row or NoRow
    \* history variables of the scoring pass claims
    sp_before,            \* lb_rows when the pass began
    sp_computed,          \* what _calculate_individual_metrics returned, per trader
    sp_raised,            \* traders whose _calculate_individual_metrics raised
    sp_touched,           \* traders whose row the pass has set in the Session
    sp_scored,            \* trader_metrics_list as Part B returned it
    sp_save_error,        \* a database failure occurred while persisting metrics
    sp_outcome,           \* "none", "committed" or "rolledback": how the last pass ended
    \* ---- State Diff Engine (utils.py detect_position_changes) ----
    df_pc,                \* "input" before the call, "done" after it
    df_previous,          \* previous_state: coin -> position, for the coins it holds
    df_current,           \* current_state: coin -> position, for the coins it holds
    df_events,            \* the events returned
    df_order,             \* the order this interpreter iterates the set all_coins in
    df_calls,             \* invocations made on the pair of snapshots
    df_first,             \* history: the events the first invocation returned
    df_restarted,         \* history: the interpreter was restarted between the invocations
    \* ---- Batch Tracker runs of two pool processes (tracking_task.py) ----
    ov_clock,             \* the next instant datetime.utcnow() returns
    ov_pc,                \* per process: "idle", "loop" (in the for loop) or "commit"
    ov_batch,             \* per process: batch_traders
    ov_snaps,             \* per process: UserStateHistory rows added to its Session
    ov_events,            \* per process: TradeEvent rows flushed in its Session
    \* history variable of the overlapping runs
    ov_diffs,             \* diffs run so far: trader, instant of the record compared, instant
    \* an entry point and the exception raised inside it
    ep_kind,              \* which entry point runs
    ep_pc,                \* the place of its code control is at
    ep_exc,               \* the exception in flight, "none" without one
    ep_sessions,          \* Sessions opened and not closed
    \* history variables of the entry point
    ep_faults,            \* the failures that have occurred
    ep_outer,             \* the outermost except has caught an exception
    \* ---- HyperliquidClient._make_request (hyperliquid_client.py) ----
    mr_pc,                \* "idle", "posting", "posted", "returned" or "raised"
    mr_weight,            \* the weight of the call
    mr_response,          \* what the POST was answered with
    mr_result,            \* what the call returned: "pending", "None" or the body
    mr_raised,            \* the exception that reached the caller, or "none"
    mr_posts,             \* HTTP requests issued by the call
    mr_calls              \* calls made so far

rlVars == <<now, last_reset, weight_per_minute, requests_per_minute, rl_callers,
            rl_pc, rl_since, rl_slept, rl_wake, rl_weight, n_calls,
            obs_start, obs_sum, win_base, win_total>>

dbVars == <<db_trader, db_last_tracked, db_snaps, db_events>>

pubVars == <<tr_coins, redis_faulty, tr_malformed, published, pub_failed, tr_diffs>>

trVars == <<batch_size, tr_clock, tr_pc, tr_batch, tr_idx,
            ses_failed, ses_snaps, ses_events, ses_tracked,
            tr_outcome, tr_stamp, sel_count, n_cycles, steady, tr_ended, pubVars>>

gocVars == <<traders_table, next_id, w_impl, w_pc, w_trades, w_users, w_processed,
             w_addr, w_received, goc_done, goc_conflict>>

dsHist == <<ds_last, ds_tick, ds_dropped, ds_stop_pc>>

dsVars == <<ds_impl, ds_pc, retry_count, running, ds_socket, ds_sub, ds_wait_time,
            consec_fail, ds_failures, ds_attempted, ds_waited, dsHist>>

schVars == <<concurrency, sch_queue, sch_running>>

skVars == <<sk_n, sk_obs, sk_key, sk_values, normalized_scores, trader_score,
            stored_score>>

spVars == <<lb_rows, sp_pc, sp_traders, sp_idx, trader_metrics_list, sp_failed,
            sp_pending, sp_before, sp_computed, sp_raised, sp_touched, sp_scored,
            sp_save_error, sp_outcome>>

dfVars == <<df_pc, df_previous, df_current, df_events, df_order, df_calls, df_first,
            df_restarted>>

ovVars == <<ov_clock, ov_pc, ov_batch, ov_snaps, ov_events, ov_diffs>>

epVars == <<ep_kind, ep_pc, ep_exc, ep_sessions, ep_faults, ep_outer>>

mrVars == <<mr_pc, mr_weight, mr_response, mr_result, mr_raised, mr_posts, mr_calls>>

vars == <<rlVars, dbVars, trVars, gocVars, dsVars, schVars, skVars, spVars, dfVars, ovVars, epVars, mrVars>>

(***************************************************************************)
(* RateLimiter                                                             *)
(***************************************************************************)

\* timedelta.seconds of a non-negative delta given in seconds
Seconds(delta) == delta % SECONDS_PER_DAY

\* RateLimiter.__init__
RLInit ==
    /\ now = 0
    /\ last_reset = 0
    /\ weight_per_minute = 0
    /\ requests_per_minute = 0
    /\ rl_callers \in {{"c1"}, {"c1", "c2"}}
    /\ rl_pc = [c \in Callers |-> "idle"]
    /\ rl_since = [c \in Callers |-> -1]
    /\ rl_slept = [c \in Callers |-> FALSE]
    /\ rl_wake = [c \in Callers |-> 0]
    /\ rl_weight = [c \in Callers |-> 0]
    /\ n_calls = 0
    /\ obs_start = -1
    /\ obs_sum = 0
    /\ win_base = 0
    /\ win_total = 0

\* history: a call of weight w is admitted (wait_if_needed returns) at time now
Admitted(w) ==
    /\ obs_sum' = IF obs_start >= 0 /\ now < obs_start + WINDOW
                  THEN obs_sum + w ELSE obs_sum
    /\ IF now - win_base >= WINDOW
       THEN win_base' = now /\ win_total' = w
       ELSE win_base' = win_base /\ win_total' = win_total + w
    /\ UNCHANGED obs_start

\* the window check of wait_if_needed: has a minute passed since last_reset
WindowElapsed == now - last_reset >= WINDOW

\* the budget check of wait_if_needed, against the counter value wpm
OverBudget(wpm, w) == wpm + w > max_weight_per_minute

\* the counters after the sleep of wait_if_needed
AfterSleepWeight == 0

\* mutant: the wait ends one second before the window does
WaitTimeShort(lr) == WINDOW - 1 - Seconds(now - lr)

\* wait_time = 60 - (now - self.last_reset).seconds
WaitTime(lr) == WINDOW - Seconds(now - lr)

\* wait_if_needed, from its entry to its return or to the await of asyncio.sleep
WaitIfNeeded(c, w) ==
    /\ c \in rl_callers
    /\ rl_pc[c] = "idle"
    /\ n_calls < MaxCalls
    /\ n_calls' = n_calls + 1
    /\ rl_slept' = [rl_slept EXCEPT ![c] = FALSE]
    /\ LET rpm1 == IF WindowElapsed THEN 0 ELSE requests_per_minute
           wpm1 == IF WindowElapsed THEN 0 ELSE weight_per_minute
           lr1  == IF WindowElapsed THEN now ELSE last_reset
           wait_time == WaitTime(lr1)
       IN  IF OverBudget(wpm1, w) /\ wait_time > 0
           THEN /\ rl_pc' = [rl_pc EXCEPT ![c] = "sleeping"]
                /\ rl_wake' = [rl_wake EXCEPT ![c] = now + wait_time]
                /\ rl_weight' = [rl_weight EXCEPT ![c] = w]
                /\ rl_since' = [rl_since EXCEPT ![c] = lr1]
                /\ requests_per_minute' = rpm1
                /\ weight_per_minute' = wpm1
                /\ last_reset' = lr1
                /\ UNCHANGED <<obs_start, obs_sum, win_base, win_total>>
           ELSE /\ requests_per_minute' = rpm1 + 1
                /\ weight_per_minute' = wpm1 + w
                /\ last_reset' = lr1
                /\ Admitted(w)
                /\ UNCHANGED <<rl_pc, rl_since, rl_wake, rl_weight>>
    /\ UNCHANGED <<now, rl_callers>>

\* wait_if_needed, from the return of asyncio.sleep to its own return
WaitResume(c) ==
    /\ rl_pc[c] = "sleeping"
    /\ now >= rl_wake[c]
    /\ requests_per_minute' = 0 + 1
    /\ weight_per_minute' = AfterSleepWeight + rl_weight[c]
    /\ last_reset' = now
    /\ Admitted(rl_weight[c])
    /\ rl_pc' = [rl_pc EXCEPT ![c] = "idle"]
    /\ rl_wake' = [rl_wake EXCEPT ![c] = 0]
    /\ rl_weight' = [rl_weight EXCEPT ![c] = 0]
    /\ rl_since' = [rl_since EXCEPT ![c] = -1]
    /\ rl_slept' = [rl_slept EXCEPT ![c] = TRUE]
    /\ UNCHANGED <<now, rl_callers, n_calls>>

\* one second passes
Tick ==
    /\ now < MaxTime
    /\ now' = now + 1
    /\ UNCHANGED <<last_reset, weight_per_minute, requests_per_minute, rl_callers,
                   rl_pc, rl_since, rl_slept, rl_wake, rl_weight, n_calls,
                   obs_start, obs_sum, win_base, win_total>>

\* history: the observer picks the instant at which a rolling interval starts
Observe ==
    /\ obs_start = -1
    /\ obs_start' = now
    /\ UNCHANGED <<now, last_reset, weight_per_minute, requests_per_minute, rl_callers,
                   rl_pc, rl_since, rl_slept, rl_wake, rl_weight, n_calls, obs_sum, win_base, win_total>>

RLNext ==
    \/ \E c \in Callers, w \in Weights : WaitIfNeeded(c, w) /\ UNCHANGED <<dbVars, trVars, gocVars, dsVars, schVars, skVars, spVars, dfVars, ovVars, epVars, mrVars>>
    \/ \E c \in Callers : WaitResume(c) /\ UNCHANGED <<dbVars, trVars, gocVars, dsVars, schVars, skVars, spVars, dfVars, ovVars, epVars, mrVars>>
    \/ Tick /\ UNCHANGED <<dbVars, trVars, gocVars, dsVars, schVars, skVars, spVars, dfVars, ovVars, epVars, mrVars>>
    \/ Observe /\ UNCHANGED <<dbVars, trVars, gocVars, dsVars, schVars, skVars, spVars, dfVars, ovVars, epVars, mrVars>>

\* the RateLimiter without the observer of rolling intervals
WindowNext ==
    \/ \E c \in Callers, w \in Weights : WaitIfNeeded(c, w) /\ UNCHANGED <<dbVars, trVars, gocVars, dsVars, schVars, skVars, spVars, dfVars, ovVars, epVars, mrVars>>
    \/ \E c \in Callers : WaitResume(c) /\ UNCHANGED <<dbVars, trVars, gocVars, dsVars, schVars, skVars, spVars, dfVars, ovVars, epVars, mrVars>>
    \/ Tick /\ UNCHANGED <<dbVars, trVars, gocVars, dsVars, schVars, skVars, spVars, dfVars, ovVars, epVars, mrVars>>

\* the RateLimiter of a client that no task is using
RLParked ==
    /\ now = 0
    /\ last_reset = 0
    /\ weight_per_minute = 0
    /\ requests_per_minute = 0
    /\ rl_callers = {}
    /\ rl_pc = [c \in Callers |-> "idle"]
    /\ rl_since = [c \in Callers |-> -1]
    /\ rl_slept = [c \in Callers |-> FALSE]
    /\ rl_wake = [c \in Callers |-> 0]
    /\ rl_weight = [c \in Callers |-> 0]
    /\ n_calls = 0
    /\ obs_start = -1
    /\ obs_sum = 0
    /\ win_base = 0
    /\ win_total = 0

(***************************************************************************)
(* Persistence store and Batch Tracker                                     *)
(***************************************************************************)

\* the wallet addresses of the run; a Trader row is keyed by its address
Traders == {"t1", "t2", "t3"}
\* a NULL last_tracked_at
NULL == -1
\* the coins of assetPositions, in one of the orders a set of them is iterated
CoinOrder == <<"BTC", "ETH">>
\* every coin of assetPositions
DiffCoins == {CoinOrder[i] : i \in 1..Len(CoinOrder)}
\* the coin the tracked traders hold positions of, unless more are named
Coins == {"BTC"}
\* values of the szi field
Sizes == {0, 1}
\* the entryPx of every position the Batch Tracker fetches
TrackedPx == 1
\* a position without the key szi
NoSzi == -9
\* a clearinghouseState response: coin -> position
UserStates ==
    {[c \in tr_coins |-> [szi |-> f[c], entryPx |-> TrackedPx]] :
        f \in [tr_coins -> IF tr_malformed THEN Sizes \cup {NoSzi} ELSE Sizes]}

\* mutant: the batch query without its filter on is_active
ActiveTradersUnfiltered == {t \in Traders : db_trader[t] # "absent"}

\* the rows of traders with is_active
ActiveTraders == {t \in Traders : db_trader[t] = "active"}

Min(a, b) == IF a < b THEN a ELSE b

\* the store of a fresh installation: two or three traders known, one of them
\* possibly deactivated by an operator, none tracked yet
DBInit ==
    /\ db_trader \in {f \in [Traders -> {"absent", "active", "inactive"}] :
                         f["t1"] = "active" /\ f["t2"] = "active"}
    /\ db_last_tracked = [t \in Traders |-> NULL]
    /\ db_snaps = [t \in Traders |-> <<>>]
    /\ db_events = [t \in Traders |-> <<>>]

\* a clearinghouseState response in which every coin has the given size
Holding(coins, size) == [c \in coins |-> [szi |-> size, entryPx |-> TrackedPx]]

\* the store after a first cycle that tracked the two known traders at
\* instant 0, both of them flat or both long in every coin
DBTracked ==
    /\ db_trader = [t \in Traders |-> IF t = "t3" THEN "absent" ELSE "active"]
    /\ db_last_tracked = [t \in Traders |-> IF t = "t3" THEN NULL ELSE 0]
    /\ \E sz \in Sizes :
          db_snaps = [t \in Traders |->
              IF t = "t3" THEN <<>>
              ELSE <<[trader |-> t, ts |-> 0, state |-> Holding(DiffCoins, sz)]>>]
    /\ db_events = [t \in Traders |-> <<>>]

TrInit ==
    /\ batch_size \in 1..MaxBatch
    /\ tr_clock = 1
    /\ tr_pc = "idle"
    /\ tr_batch = <<>>
    /\ tr_idx = 0
    /\ ses_failed = FALSE
    /\ ses_snaps = {}
    /\ ses_events = <<>>
    /\ ses_tracked = {}
    /\ tr_outcome = [t \in Traders |-> "none"]
    /\ tr_stamp = [t \in Traders |-> NULL]
    /\ sel_count = [t \in Traders |-> 0]
    /\ n_cycles = 0
    /\ steady = TRUE
    /\ tr_ended = "none"
    /\ tr_coins = Coins
    /\ redis_faulty = FALSE
    /\ tr_malformed = FALSE
    /\ published = {}
    /\ pub_failed = {}
    /\ tr_diffs = {}

\* the Batch Tracker of traders who hold two coins, with a publisher that may
\* raise, for the last instants of the run
PubInit ==
    /\ batch_size \in 1..MaxBatch
    /\ tr_clock = MaxClock - PubTracks + 1
    /\ tr_pc = "idle"
    /\ tr_batch = <<>>
    /\ tr_idx = 0
    /\ ses_failed = FALSE
    /\ ses_snaps = {}
    /\ ses_events = <<>>
    /\ ses_tracked = {}
    /\ tr_outcome = [t \in Traders |-> "none"]
    /\ tr_stamp = [t \in Traders |-> NULL]
    /\ sel_count = [t \in Traders |-> 0]
    /\ n_cycles = 0
    /\ steady = TRUE
    /\ tr_ended = "none"
    /\ tr_coins = DiffCoins
    /\ redis_faulty = TRUE
    /\ tr_malformed = FALSE
    /\ published = {}
    /\ pub_failed = {}
    /\ tr_diffs = {}

\* the Batch Tracker of traders who hold two coins, when the exchange may
\* answer with positions that lack szi, for the last three instants of the
\* run, so that a trader is compared with the malformed snapshot the run
\* stored of them
MalformedInit ==
    /\ batch_size \in 1..MaxBatch
    /\ tr_clock = MaxClock - 2
    /\ tr_pc = "idle"
    /\ tr_batch = <<>>
    /\ tr_idx = 0
    /\ ses_failed = FALSE
    /\ ses_snaps = {}
    /\ ses_events = <<>>
    /\ ses_tracked = {}
    /\ tr_outcome = [t \in Traders |-> "none"]
    /\ tr_stamp = [t \in Traders |-> NULL]
    /\ sel_count = [t \in Traders |-> 0]
    /\ n_cycles = 0
    /\ steady = TRUE
    /\ tr_ended = "none"
    /\ tr_coins = DiffCoins
    /\ redis_faulty = FALSE
    /\ tr_malformed = TRUE
    /\ published = {}
    /\ pub_failed = {}
    /\ tr_diffs = {}

\* history: a failure or a new trader ends the steady run the counters describe
Unsteady ==
    /\ steady' = FALSE
    /\ sel_count' = [t \in Traders |-> 0]
    /\ n_cycles' = 0

\* mutant: the batch query without its ORDER BY
OrderedBeforeUnordered(a, b) == TRUE

\* ORDER BY last_tracked_at ASC NULLS FIRST: may row a come before row b
OrderedBefore(a, b) ==
    \/ db_last_tracked[a] = NULL
    \/ db_last_tracked[b] # NULL /\ db_last_tracked[a] <= db_last_tracked[b]

\* the results the batch query may return: the first BATCH_SIZE active rows of
\* the ordering, rows of equal rank in any order
BatchQuery ==
    LET k == Min(batch_size, Cardinality(ActiveTraders))
    IN  {b \in [1..k -> ActiveTraders] :
            /\ \A i, j \in 1..k : i # j => b[i] # b[j]
            /\ \A i, j \in 1..k : i < j => OrderedBefore(b[i], b[j])
            /\ \A t \in ActiveTraders :
                   (\A i \in 1..k : b[i] # t) => \A i \in 1..k : OrderedBefore(b[i], t)}

\* _track_traders_batch_async, lines 39-53: open the session and select the batch
TrackBegin ==
    /\ tr_pc = "idle"
    /\ \E b \in BatchQuery :
          /\ tr_clock + Len(b) <= MaxClock + 1
          /\ IF Len(b) = 0
             THEN UNCHANGED <<tr_pc, tr_batch, tr_idx, tr_outcome, tr_stamp, sel_count,
                              published, pub_failed, tr_diffs, tr_ended>>
             ELSE /\ tr_pc' = "loop"
                  /\ tr_ended' = "none"
                  /\ published' = {}
                  /\ pub_failed' = {}
                  /\ tr_diffs' = {}
                  /\ tr_batch' = b
                  /\ tr_idx' = 1
                  /\ tr_outcome' = [t \in Traders |-> "none"]
                  /\ tr_stamp' = [t \in Traders |-> NULL]
                  /\ sel_count' = [t \in Traders |->
                        IF steady /\ \E i \in 1..Len(b) : b[i] = t
                        THEN sel_count[t] + 1 ELSE sel_count[t]]
    /\ UNCHANGED <<batch_size, tr_clock, ses_failed, ses_snaps, ses_events,
                   ses_tracked, n_cycles, steady, tr_coins, redis_faulty, tr_malformed>>
    /\ UNCHANGED dbVars

\* the most recent UserStateHistory row of trader t (ORDER BY timestamp DESC, first)
PreviousStateRecord(t) ==
    LET rows == db_snaps[t]
    IN  CHOOSE i \in 1..Len(rows) : \A j \in 1..Len(rows) : rows[j].ts <= rows[i].ts

\* mutant: only long positions are seen to open
EventTypeLongOpens(prev_size, curr_size) ==
    IF prev_size = 0 /\ curr_size > 0 THEN "OPEN_POSITION"
    ELSE IF prev_size # 0 /\ curr_size = 0 THEN "CLOSE_POSITION"
    ELSE "NONE"

\* mutant: only long positions are seen to close
EventTypeLongCloses(prev_size, curr_size) ==
    IF prev_size = 0 /\ curr_size # 0 THEN "OPEN_POSITION"
    ELSE IF prev_size > 0 /\ curr_size = 0 THEN "CLOSE_POSITION"
    ELSE "NONE"

\* detect_position_changes: the event type for one coin, "NONE" for no event
EventType(prev_size, curr_size) ==
    IF prev_size = 0 /\ curr_size # 0 THEN "OPEN_POSITION"
    ELSE IF prev_size # 0 /\ curr_size = 0 THEN "CLOSE_POSITION"
    ELSE "NONE"

\* a position without the key entryPx
NoPx == -1

\* float(pos['szi']) if pos else 0
SizeOf(positions, coin) ==
    IF coin \in DOMAIN positions THEN positions[coin].szi ELSE 0

\* pos['szi'] raises KeyError: the position has no size field
NoSize(positions, coin) ==
    coin \in DOMAIN positions /\ positions[coin].szi = NoSzi

\* some statement of the body of detect_position_changes raises
DiffRaises(previous_state, current_state) ==
    \E coin \in (DOMAIN previous_state) \cup (DOMAIN current_state) :
        NoSize(previous_state, coin) \/ NoSize(current_state, coin)

\* mutant: a diff without its try, whose exceptions reach the caller
DiffEscapesUncaught(previous_state, current_state) ==
    DiffRaises(previous_state, current_state)

\* an exception leaves detect_position_changes: never, every statement but
\* events = [] and the return is inside try ... except Exception
DiffEscapes(previous_state, current_state) == FALSE

\* str(size): the text of a float, which float() reads back to the same value
PyStr(size) == [str |-> size]

\* 'LONG' if size > 0 else 'SHORT'
SideOf(size) == IF size > 0 THEN "LONG" ELSE "SHORT"

\* curr_pos.get('entryPx', '0') if curr_pos else '0'
EntryPrice(positions, coin) ==
    IF coin \in DOMAIN positions /\ positions[coin].entryPx # NoPx
    THEN positions[coin].entryPx
    ELSE 0

\* the TradeEvent of one coin
EventOf(kind, coin, previous_state, current_state, timestamp, trader_id) ==
    IF kind = "OPEN_POSITION"
    THEN [trader |-> trader_id, ts |-> timestamp, event_type |-> kind, coin |-> coin,
          size |-> PyStr(SizeOf(current_state, coin)),
          side |-> SideOf(SizeOf(current_state, coin)),
          entry_price |-> EntryPrice(current_state, coin)]
    ELSE [trader |-> trader_id, ts |-> timestamp, event_type |-> kind, coin |-> coin,
          size |-> PyStr(SizeOf(previous_state, coin)),
          side |-> SideOf(SizeOf(previous_state, coin))]

RECURSIVE DetectFrom(_, _, _, _, _)
\* the loop over all_coins, the coins of either state, in the order the string
\* hashes of this interpreter give the set; a KeyError ends the loop and the
\* events appended so far are what the function returns
DetectFrom(i, previous_state, current_state, timestamp, trader_id) ==
    IF i > Len(df_order) THEN <<>>
    ELSE IF NoSize(previous_state, df_order[i]) \/ NoSize(current_state, df_order[i]) THEN <<>>
    ELSE LET coin == df_order[i]
             kind == IF coin \in (DOMAIN previous_state) \cup (DOMAIN current_state)
                     THEN EventType(SizeOf(previous_state, coin), SizeOf(current_state, coin))
                     ELSE "NONE"
             rest == DetectFrom(i + 1, previous_state, current_state, timestamp, trader_id)
         IN  IF kind = "NONE" THEN rest
             ELSE <<EventOf(kind, coin, previous_state, current_state, timestamp,
                            trader_id)>> \o rest

\* detect_position_changes(previous_state, current_state, timestamp, trader_id)
detect_position_changes(previous_state, current_state, timestamp, trader_id) ==
    DetectFrom(1, previous_state, current_state, timestamp, trader_id)

\* the for loop has a trader left to process
InLoop == tr_pc = "loop" /\ tr_idx <= Len(tr_batch)

\* mutant: a failed fetch still sends the trader to the back of the queue
TrackFetchFailedTouching ==
    /\ UNCHANGED tr_ended
    /\ InLoop
    /\ ~ses_failed
    /\ tr_outcome' = [tr_outcome EXCEPT ![tr_batch[tr_idx]] = "fetch_failed"]
    /\ tr_idx' = tr_idx + 1
    /\ ses_tracked' = ses_tracked \cup {[trader |-> tr_batch[tr_idx], ts |-> tr_clock]}
    /\ Unsteady
    /\ UNCHANGED <<batch_size, tr_clock, tr_pc, tr_batch, ses_failed, ses_snaps,
                   ses_events, tr_stamp>>
    /\ UNCHANGED pubVars
    /\ UNCHANGED dbVars

\* lines 58-62: get_user_state returned None; the trader is skipped
TrackFetchFailed ==
    /\ UNCHANGED tr_ended
    /\ InLoop
    /\ ~ses_failed
    /\ tr_outcome' = [tr_outcome EXCEPT ![tr_batch[tr_idx]] = "fetch_failed"]
    /\ tr_idx' = tr_idx + 1
    /\ Unsteady
    /\ UNCHANGED <<batch_size, tr_clock, tr_pc, tr_batch, ses_failed, ses_snaps,
                   ses_events, ses_tracked, tr_stamp>>
    /\ UNCHANGED pubVars
    /\ UNCHANGED dbVars

\* the rows the Session holds after one more trader was processed without error
SessionAfterTrader(t, current_state, events) ==
    /\ ses_events' = ses_events \o events
    /\ ses_snaps' = ses_snaps \cup {[trader |-> t, ts |-> tr_clock, state |-> current_state]}
    /\ ses_tracked' = ses_tracked \cup {[trader |-> t, ts |-> tr_clock]}

\* mutant: a trader without a previous record is compared with an empty state
TradeEventsFromEmpty(t, current_state) ==
    IF db_snaps[t] # <<>>
    THEN detect_position_changes(db_snaps[t][PreviousStateRecord(t)].state,
                                 current_state, tr_clock, t)
    ELSE detect_position_changes(<<>>, current_state, tr_clock, t)

\* lines 64-76: trade_events of trader t, none without a previous record
TradeEvents(t, current_state) ==
    IF db_snaps[t] # <<>>
    THEN detect_position_changes(db_snaps[t][PreviousStateRecord(t)].state,
                                 current_state, tr_clock, t)
    ELSE <<>>

\* the events, by position in trade_events, whose publish may raise
PublishFailures(events) ==
    IF redis_faulty THEN SUBSET (1..Len(events)) ELSE {{}}

\* lines 84-95: the first n events are published, one by one; an exception of
\* publish is logged and the loop goes on
PublishAll(events, n, raised) ==
    /\ published' = published \cup {events[i] : i \in (1..n) \ raised}
    /\ pub_failed' = pub_failed \cup {events[i] : i \in (1..n) \cap raised}

\* the call of line 71 raises: there is a previous record and the exception
\* leaves detect_position_changes
DiffFails(t, current_state) ==
    /\ db_snaps[t] # <<>>
    /\ DiffEscapes(db_snaps[t][PreviousStateRecord(t)].state, current_state)

\* history: the comparison of line 71, with the record it was given
DiffRun(t) ==
    IF db_snaps[t] # <<>>
    THEN {[trader |-> t, ts |-> tr_clock,
           prev_trader |-> db_snaps[t][PreviousStateRecord(t)].trader,
           prev_ts |-> db_snaps[t][PreviousStateRecord(t)].ts]}
    ELSE {}

\* mutant: without the try of line 84 an exception of publish reaches the
\* except of line 110, and the trader's later events, new UserStateHistory row
\* and last_tracked_at are never added
TrackTraderOkPublishFatal ==
    /\ UNCHANGED tr_ended
    /\ InLoop
    /\ ~ses_failed
    /\ \E current_state \in UserStates :
          LET t == tr_batch[tr_idx]
              events == TradeEvents(t, current_state)
          IN  /\ \E raised \in PublishFailures(events) :
                     IF raised = {}
                     THEN /\ SessionAfterTrader(t, current_state, events)
                          /\ PublishAll(events, Len(events), raised)
                     ELSE LET k == CHOOSE i \in raised : \A j \in raised : i <= j
                          IN  /\ ses_events' = ses_events \o SubSeq(events, 1, k)
                              /\ UNCHANGED <<ses_snaps, ses_tracked>>
                              /\ PublishAll(events, k, raised)
              /\ tr_diffs' = tr_diffs \cup DiffRun(t)
              /\ tr_outcome' = [tr_outcome EXCEPT ![t] = "ok"]
              /\ tr_stamp' = [tr_stamp EXCEPT ![t] = tr_clock]
    /\ tr_clock' = tr_clock + 1
    /\ tr_idx' = tr_idx + 1
    /\ UNCHANGED <<batch_size, tr_pc, tr_batch, ses_failed, sel_count, n_cycles, steady>>
    /\ UNCHANGED <<tr_coins, redis_faulty, tr_malformed>>
    /\ UNCHANGED dbVars

\* lines 58-108: the state was fetched, compared with the previous record, and
\* the events, the new UserStateHistory row and last_tracked_at were added
TrackTraderOk ==
    /\ UNCHANGED tr_ended
    /\ InLoop
    /\ ~ses_failed
    /\ \E current_state \in UserStates :
          LET t == tr_batch[tr_idx]
              events == TradeEvents(t, current_state)
          IN  IF DiffFails(t, current_state)
              THEN \* the except of line 110 logs; nothing of the trader is added
                   /\ UNCHANGED <<ses_events, ses_snaps, ses_tracked, published,
                                  pub_failed, tr_stamp>>
                   /\ tr_diffs' = tr_diffs \cup DiffRun(t)
                   /\ tr_outcome' = [tr_outcome EXCEPT ![t] = "diff_raised"]
              ELSE /\ SessionAfterTrader(t, current_state, events)
                   /\ \E raised \in PublishFailures(events) :
                          PublishAll(events, Len(events), raised)
                   /\ tr_diffs' = tr_diffs \cup DiffRun(t)
                   /\ tr_outcome' = [tr_outcome EXCEPT ![t] = "ok"]
                   /\ tr_stamp' = [tr_stamp EXCEPT ![t] = tr_clock]
    /\ tr_clock' = tr_clock + 1
    /\ tr_idx' = tr_idx + 1
    /\ UNCHANGED <<batch_size, tr_pc, tr_batch, ses_failed, sel_count, n_cycles, steady>>
    /\ UNCHANGED <<tr_coins, redis_faulty, tr_malformed>>
    /\ UNCHANGED dbVars

\* lines 65-67 or 81 raise a database error: the flush rolls the transaction of
\* the Session back, the rows it held are gone, and the except of line 110 logs.
\* When the flush of the k-th event raises, the events before it were published.
\* The loop goes on with a Session that refuses further work, or is left at once
\* when the log line itself touches the expired trader.
TrackDbError ==
    /\ UNCHANGED tr_ended
    /\ InLoop
    /\ ~ses_failed
    /\ \/ UNCHANGED <<published, pub_failed, tr_diffs>>
       \/ \E current_state \in UserStates :
             LET t == tr_batch[tr_idx]
                 events == TradeEvents(t, current_state)
             IN  \E k \in 1..Len(events), raised \in PublishFailures(events) :
                    /\ PublishAll(events, k - 1, raised)
                    /\ tr_diffs' = tr_diffs \cup DiffRun(t)
    /\ ses_failed' = TRUE
    /\ ses_snaps' = {}
    /\ ses_events' = <<>>
    /\ ses_tracked' = {}
    /\ tr_outcome' = [tr_outcome EXCEPT ![tr_batch[tr_idx]] = "raised"]
    /\ tr_idx' \in {tr_idx + 1, Len(tr_batch) + 1}
    /\ Unsteady
    /\ UNCHANGED <<batch_size, tr_clock, tr_pc, tr_batch, tr_stamp, tr_coins, redis_faulty, tr_malformed>>
    /\ UNCHANGED dbVars

\* a trader processed after the transaction was rolled back: every use of the
\* Session raises, the except of line 110 logs, nothing is added
TrackAfterDbError ==
    /\ UNCHANGED tr_ended
    /\ InLoop
    /\ ses_failed
    /\ tr_outcome' = [tr_outcome EXCEPT ![tr_batch[tr_idx]] = "raised"]
    /\ tr_idx' = tr_idx + 1
    /\ UNCHANGED <<batch_size, tr_clock, tr_pc, tr_batch, ses_failed, ses_snaps,
                   ses_events, ses_tracked, tr_stamp, sel_count, n_cycles, steady>>
    /\ UNCHANGED pubVars
    /\ UNCHANGED dbVars

\* the rows of table rows after the Session's rows for trader t are appended
Appended(rows, added, t) ==
    rows \o SelectSeq(added, LAMBDA e : e.trader = t)

RECURSIVE SetToSeq(_)
SetToSeq(S) ==
    IF S = {} THEN <<>>
    ELSE LET x == CHOOSE y \in S : TRUE IN <<x>> \o SetToSeq(S \ {x})

\* db.commit() of line 113 succeeded: the rows of the Session are the store's
CommitSession ==
    /\ db_snaps' = [t \in Traders |-> Appended(db_snaps[t], SetToSeq(ses_snaps), t)]
    /\ db_events' = [t \in Traders |-> Appended(db_events[t], ses_events, t)]
    /\ db_last_tracked' = [t \in Traders |->
           IF \E r \in ses_tracked : r.trader = t
           THEN (CHOOSE r \in ses_tracked : r.trader = t).ts
           ELSE db_last_tracked[t]]
    /\ UNCHANGED db_trader

\* the Session is closed (finally: db.close()) and the task returns
CloseSession ==
    /\ tr_pc' = "idle"
    /\ tr_batch' = <<>>
    /\ tr_idx' = 0
    /\ ses_failed' = FALSE
    /\ ses_snaps' = {}
    /\ ses_events' = <<>>
    /\ ses_tracked' = {}

\* lines 113-114: the loop is over and the one commit of the cycle succeeds
TrackCommit ==
    /\ tr_pc = "loop" /\ tr_idx > Len(tr_batch)
    /\ ~ses_failed
    /\ CommitSession
    /\ CloseSession
    /\ tr_ended' = "committed"
    /\ n_cycles' = IF steady THEN n_cycles + 1 ELSE n_cycles
    /\ UNCHANGED <<batch_size, tr_clock, tr_outcome, tr_stamp, sel_count, steady>>
    /\ UNCHANGED pubVars

\* lines 116-118: db.commit() raises (always, after a failed flush) and the
\* except rolls the whole cycle back
TrackRollback ==
    /\ tr_pc = "loop" /\ tr_idx > Len(tr_batch)
    /\ CloseSession
    /\ tr_ended' = "rolledback"
    /\ Unsteady
    /\ UNCHANGED <<batch_size, tr_clock, tr_outcome, tr_stamp>>
    /\ UNCHANGED pubVars
    /\ UNCHANGED dbVars

\* the discovery stream commits a new Trader row (get_or_create_trader)
NewTrader(t) ==
    /\ UNCHANGED tr_ended
    /\ db_trader[t] = "absent"
    /\ db_trader' = [db_trader EXCEPT ![t] = "active"]
    /\ Unsteady
    /\ UNCHANGED <<db_last_tracked, db_snaps, db_events>>
    /\ UNCHANGED <<batch_size, tr_clock, tr_pc, tr_batch, tr_idx, ses_failed,
                   ses_snaps, ses_events, ses_tracked, tr_outcome, tr_stamp>>
    /\ UNCHANGED pubVars

\* the steps of one run of task_track_traders_batch
TrackStep ==
    \/ TrackBegin
    \/ TrackFetchFailed
    \/ TrackTraderOk
    \/ TrackDbError
    \/ TrackAfterDbError
    \/ TrackCommit
    \/ TrackRollback

TrackNext ==
    \/ TrackBegin /\ UNCHANGED <<rlVars, gocVars, dsVars, schVars, skVars, spVars, dfVars, ovVars, epVars, mrVars>>
    \/ TrackFetchFailed /\ UNCHANGED <<rlVars, gocVars, dsVars, schVars, skVars, spVars, dfVars, ovVars, epVars, mrVars>>
    \/ TrackTraderOk /\ UNCHANGED <<rlVars, gocVars, dsVars, schVars, skVars, spVars, dfVars, ovVars, epVars, mrVars>>
    \/ TrackDbError /\ UNCHANGED <<rlVars, gocVars, dsVars, schVars, skVars, spVars, dfVars, ovVars, epVars, mrVars>>
    \/ TrackAfterDbError /\ UNCHANGED <<rlVars, gocVars, dsVars, schVars, skVars, spVars, dfVars, ovVars, epVars, mrVars>>
    \/ TrackCommit /\ UNCHANGED <<rlVars, gocVars, dsVars, schVars, skVars, spVars, dfVars, ovVars, epVars, mrVars>>
    \/ TrackRollback /\ UNCHANGED <<rlVars, gocVars, dsVars, schVars, skVars, spVars, dfVars, ovVars, epVars, mrVars>>
    \/ \E t \in Traders : NewTrader(t) /\ UNCHANGED <<rlVars, gocVars, dsVars, schVars, skVars, spVars, dfVars, ovVars, epVars, mrVars>>

\* the tracker and its store while another component is looked at
TrackerIdle ==
    /\ batch_size = 1
    /\ tr_clock = 1
    /\ tr_pc = "idle"
    /\ tr_batch = <<>>
    /\ tr_idx = 0
    /\ ses_failed = FALSE
    /\ ses_snaps = {}
    /\ ses_events = <<>>
    /\ ses_tracked = {}
    /\ tr_outcome = [t \in Traders |-> "none"]
    /\ tr_stamp = [t \in Traders |-> NULL]
    /\ sel_count = [t \in Traders |-> 0]
    /\ n_cycles = 0
    /\ steady = TRUE
    /\ tr_ended = "none"
    /\ tr_coins = Coins
    /\ redis_faulty = FALSE
    /\ tr_malformed = FALSE
    /\ published = {}
    /\ pub_failed = {}
    /\ tr_diffs = {}

\* the store and the Batch Tracker while another component is looked at
TrParked ==
    /\ db_trader = [t \in Traders |-> "absent"]
    /\ db_last_tracked = [t \in Traders |-> NULL]
    /\ db_snaps = [t \in Traders |-> <<>>]
    /\ db_events = [t \in Traders |-> <<>>]
    /\ TrackerIdle

(***************************************************************************)
(* Trader Registry: get_or_create_trader under concurrent discovery        *)
(***************************************************************************)

\* the processes that discover traders, each with a Session of its own
Workers == {"w1", "w2"}
\* wallet addresses seen on the feed
Addresses == {"a1", "a2"}
\* an entry of the users array of a trade: an address, or an empty string
Users == Addresses \cup {""}
\* the users array of a trade: buyer and seller
TradeUsers == {<<b, s>> : b \in Users, s \in Users}

\* the data array of a trade message: one trade between any two users, or two
\* trades between the two addresses
TradeMessages ==
    {<<t>> : t \in TradeUsers} \cup
    {<<t1, t2>> : t1 \in {<<"a1", "a2">>, <<"a2", "a1">>},
                  t2 \in {<<"a1", "a2">>, <<"a2", "a1">>}}

GocInit ==
    /\ traders_table = {}
    /\ next_id = 1
    /\ w_impl \in [Workers -> {"service", "task"}]
    /\ w_pc = [w \in Workers |-> "idle"]
    /\ w_trades = [w \in Workers |-> <<>>]
    /\ w_users = [w \in Workers |-> <<>>]
    /\ w_processed = [w \in Workers |-> {}]
    /\ w_addr = [w \in Workers |-> ""]
    /\ w_received = [w \in Workers |-> 0]
    /\ goc_done = {}
    /\ goc_conflict = FALSE

\* db.query(Trader).filter(Trader.address == address).first() finds a row
TraderExists(address) == \E r \in traders_table : r.address = address

\* mutant: column address without its unique constraint
InsertAllowedNoConstraint(address) == TRUE

\* Trader.address is unique=True: the INSERT of a row with this address commits
InsertAllowed(address) == ~TraderExists(address)

\* _process_trade_messages is called with the data of a message
Receive(w, trades) ==
    /\ w_pc[w] = "idle"
    /\ w_received[w] < MaxMessages
    /\ w_received' = [w_received EXCEPT ![w] = @ + 1]
    /\ w_pc' = [w_pc EXCEPT ![w] = "trade"]
    /\ w_trades' = [w_trades EXCEPT ![w] = trades]
    /\ w_processed' = [w_processed EXCEPT ![w] = {}]
    /\ UNCHANGED <<traders_table, next_id, w_impl, w_users, w_addr, goc_done, goc_conflict>>

\* for trade in trades: the next trade, or the end of the message (db.close())
NextTrade(w) ==
    /\ w_pc[w] = "trade"
    /\ IF w_trades[w] = <<>>
       THEN /\ w_pc' = [w_pc EXCEPT ![w] = "idle"]
            /\ UNCHANGED <<w_trades, w_users>>
       ELSE /\ w_pc' = [w_pc EXCEPT ![w] = "user"]
            /\ w_users' = [w_users EXCEPT ![w] = Head(w_trades[w])]
            /\ w_trades' = [w_trades EXCEPT ![w] = Tail(w_trades[w])]
    /\ UNCHANGED <<traders_table, next_id, w_impl, w_processed, w_addr, w_received,
                   goc_done, goc_conflict>>

\* for user_address in trade["users"]: the checks made before get_or_create_trader
\* is called (the service skips repeated addresses and queries the table first)
NextUser(w) ==
    /\ w_pc[w] = "user"
    /\ IF w_users[w] = <<>>
       THEN /\ w_pc' = [w_pc EXCEPT ![w] = "trade"]
            /\ UNCHANGED <<w_users, w_processed, w_addr>>
       ELSE LET a == Head(w_users[w])
                skip == \/ a = ""
                        \/ w_impl[w] = "service" /\ a \in w_processed[w]
                        \/ w_impl[w] = "service" /\ TraderExists(a)
            IN  /\ w_users' = [w_users EXCEPT ![w] = Tail(w_users[w])]
                /\ w_processed' = [w_processed EXCEPT ![w] =
                       IF w_impl[w] = "service" /\ a # "" THEN @ \cup {a} ELSE @]
                /\ IF skip
                   THEN UNCHANGED <<w_pc, w_addr>>
                   ELSE /\ w_pc' = [w_pc EXCEPT ![w] = "goc_query"]
                        /\ w_addr' = [w_addr EXCEPT ![w] = a]
    /\ UNCHANGED <<traders_table, next_id, w_impl, w_trades, w_received,
                   goc_done, goc_conflict>>

\* get_or_create_trader, lines 23-27: the existence check
GocQuery(w) ==
    /\ w_pc[w] = "goc_query"
    /\ IF TraderExists(w_addr[w])
       THEN /\ w_pc' = [w_pc EXCEPT ![w] = "user"]
            /\ goc_done' = goc_done \cup {w_addr[w]}
       ELSE /\ w_pc' = [w_pc EXCEPT ![w] = "goc_insert"]
            /\ UNCHANGED goc_done
    /\ UNCHANGED <<traders_table, next_id, w_impl, w_trades, w_users, w_processed,
                   w_addr, w_received, goc_conflict>>

\* get_or_create_trader, lines 29-45: db.add and db.commit; a refused insert
\* raises, is rolled back and re-raised to the except of the trade loop, which
\* goes on with the next trade
GocInsert(w) ==
    /\ w_pc[w] = "goc_insert"
    /\ IF InsertAllowed(w_addr[w])
       THEN /\ traders_table' = traders_table \cup
                                   {[id |-> next_id, address |-> w_addr[w]]}
            /\ next_id' = next_id + 1
            /\ w_pc' = [w_pc EXCEPT ![w] = "user"]
            /\ UNCHANGED <<w_users, goc_conflict>>
       ELSE /\ w_pc' = [w_pc EXCEPT ![w] = "trade"]
            /\ w_users' = [w_users EXCEPT ![w] = <<>>]
            /\ goc_conflict' = TRUE
            /\ UNCHANGED <<traders_table, next_id>>
    /\ goc_done' = goc_done \cup {w_addr[w]}
    /\ UNCHANGED <<w_impl, w_trades, w_processed, w_addr, w_received>>

GocNext ==
    \/ \E w \in Workers, m \in TradeMessages :
           Receive(w, m) /\ UNCHANGED <<rlVars, dbVars, trVars, dsVars, schVars, skVars, spVars, dfVars, ovVars, epVars, mrVars>>
    \/ \E w \in Workers : NextTrade(w) /\ UNCHANGED <<rlVars, dbVars, trVars, dsVars, schVars, skVars, spVars, dfVars, ovVars, epVars, mrVars>>
    \/ \E w \in Workers : NextUser(w) /\ UNCHANGED <<rlVars, dbVars, trVars, dsVars, schVars, skVars, spVars, dfVars, ovVars, epVars, mrVars>>
    \/ \E w \in Workers : GocQuery(w) /\ UNCHANGED <<rlVars, dbVars, trVars, dsVars, schVars, skVars, spVars, dfVars, ovVars, epVars, mrVars>>
    \/ \E w \in Workers : GocInsert(w) /\ UNCHANGED <<rlVars, dbVars, trVars, dsVars, schVars, skVars, spVars, dfVars, ovVars, epVars, mrVars>>

\* the registry while another component is looked at
GocParked ==
    /\ traders_table = {}
    /\ next_id = 1
    /\ w_impl = [w \in Workers |-> "service"]
    /\ w_pc = [w \in Workers |-> "idle"]
    /\ w_trades = [w \in Workers |-> <<>>]
    /\ w_users = [w \in Workers |-> <<>>]
    /\ w_processed = [w \in Workers |-> {}]
    /\ w_addr = [w \in Workers |-> ""]
    /\ w_received = [w \in Workers |-> 0]
    /\ goc_done = {}
    /\ goc_conflict = FALSE

(***************************************************************************)
(* Discovery Stream: the connection loop                                   *)
(***************************************************************************)

\* coins_to_track, cut to its first two coins
coins_to_track == <<"BTC", "ETH">>

RECURSIVE Pow2(_)
\* 2 ** n
Pow2(n) == IF n = 0 THEN 1 ELSE 2 * Pow2(n - 1)

\* wait_time = min(60, 2 ** retry_count)
Backoff(count) == Min(MAX_WAIT, Pow2(count))

DsInit ==
    /\ ds_impl \in {"service", "task", "legacy"}
    /\ ds_pc = "loop"
    /\ retry_count = 0
    /\ running = TRUE
    /\ ds_socket = "none"
    /\ ds_sub = 0
    /\ ds_wait_time = 0
    /\ consec_fail = 0
    /\ ds_failures = 0
    /\ ds_attempted = FALSE
    /\ ds_waited = FALSE
    /\ ds_last = [kind |-> "none"]
    /\ ds_tick = FALSE
    /\ ds_dropped = FALSE
    /\ ds_stop_pc = "none"

\* mutant: a loop condition that does not look at self.running
LoopConditionIgnoringStop == retry_count < max_retries

\* mutant: a loop condition that allows one attempt more
LoopConditionOffByOne ==
    /\ ds_impl = "service" => running
    /\ retry_count <= max_retries

\* while self.running and retry_count < self.max_retries (the tasks have no flag)
LoopCondition ==
    /\ ds_impl = "service" => running
    /\ retry_count < max_retries

\* the while test: one more connection attempt, or the end of the run
DsLoopCheck ==
    /\ UNCHANGED ds_failures
    /\ UNCHANGED dsHist
    /\ ds_pc = "loop"
    /\ ds_pc' = IF LoopCondition THEN "connecting" ELSE "done"
    /\ UNCHANGED <<ds_impl, retry_count, running, ds_socket, ds_sub, ds_wait_time,
                   consec_fail, ds_attempted, ds_waited>>

\* does this implementation reset retry_count at this point of a connection:
\* the service on connecting, tasks.py after subscribing, discovery_task.py never
ResetsAt(point) ==
    \/ ds_impl = "service" /\ point = "connected"
    \/ ds_impl = "legacy" /\ point = "subscribed"

\* websockets.connect succeeded
DsConnectOk ==
    /\ ds_pc = "connecting"
    /\ ds_pc' = "subscribing"
    /\ ds_socket' = "open"
    /\ ds_sub' = 0
    /\ retry_count' = IF ResetsAt("connected") THEN 0 ELSE retry_count
    /\ consec_fail' = 0
    /\ ds_failures' = 0
    /\ ds_attempted' = TRUE
    /\ ds_waited' = FALSE
    /\ ds_dropped' = FALSE
    /\ UNCHANGED <<ds_impl, running, ds_wait_time, ds_last, ds_tick, ds_stop_pc>>

\* the except blocks of the loop: the service leaves the loop when it was
\* stopped; otherwise the count is incremented and the backoff is slept
ExceptHandler ==
    /\ ds_socket' = IF ds_socket = "open" THEN "closed" ELSE ds_socket
    /\ ds_sub' = 0
    /\ IF ds_impl = "service" /\ ~running
       THEN /\ ds_pc' = "done"
            /\ UNCHANGED <<retry_count, ds_wait_time, ds_failures>>
       ELSE /\ retry_count' = retry_count + 1
            /\ ds_failures' = ds_failures + 1
            /\ ds_wait_time' = Backoff(retry_count + 1)
            /\ ds_pc' = "backoff"
    /\ UNCHANGED <<ds_impl, running>>

\* websockets.connect raised
DsConnectFail ==
    /\ UNCHANGED dsHist
    /\ ds_pc = "connecting"
    /\ ExceptHandler
    /\ consec_fail' = consec_fail + 1
    /\ ds_attempted' = TRUE
    /\ ds_waited' = FALSE

\* mutant: the stream listens as soon as the first subscribe message is sent
DsSubscribeFirstOnly ==
    /\ UNCHANGED ds_failures
    /\ UNCHANGED dsHist
    /\ ds_pc = "subscribing"
    /\ ds_sub < Len(coins_to_track)
    /\ ds_sub' = ds_sub + 1
    /\ ds_pc' = "listening"
    /\ retry_count' = IF ResetsAt("subscribed") THEN 0 ELSE retry_count
    /\ UNCHANGED <<ds_impl, running, ds_socket, ds_wait_time,
                   consec_fail, ds_attempted, ds_waited>>

\* one subscribe message is sent; after the last one the stream listens
DsSubscribe ==
    /\ UNCHANGED ds_failures
    /\ UNCHANGED dsHist
    /\ ds_pc = "subscribing"
    /\ ds_sub < Len(coins_to_track)
    /\ ds_sub' = ds_sub + 1
    /\ IF ds_sub + 1 = Len(coins_to_track)
       THEN /\ ds_pc' = "listening"
            /\ retry_count' = IF ResetsAt("subscribed") THEN 0 ELSE retry_count
       ELSE UNCHANGED <<ds_pc, retry_count>>
    /\ UNCHANGED <<ds_impl, running, ds_socket, ds_wait_time,
                   consec_fail, ds_attempted, ds_waited>>

\* websocket.send raised while subscribing
DsSubscribeFail ==
    /\ UNCHANGED dsHist
    /\ ds_pc = "subscribing"
    /\ ExceptHandler
    /\ UNCHANGED <<consec_fail, ds_attempted, ds_waited>>

\* the addresses trade messages name
StreamUsers == {"t1", "t2"}

\* what the peer may send: text that is not JSON, JSON that is not an object
\* (a number), an object without trades (a subscription response), and a
\* trades message naming one user
InboundMessages ==
    {[kind |-> k] : k \in {"not_json", "scalar", "other"}}
        \cup {[kind |-> "trades", user |-> u] : u \in StreamUsers}

\* json.loads raises JSONDecodeError, or the handling of the parsed value raises
Malformed(message) == message.kind \in {"not_json", "scalar"}

\* mutant: only except json.JSONDecodeError guards the handling of a message
CaughtDecodeErrorOnly(message) == message.kind # "scalar"

\* except json.JSONDecodeError and except Exception inside the iteration: what
\* the handling of a message raises is logged there
Caught(message) == TRUE

\* _process_trade_messages: the Trader rows after the message was handled
Registered(message) ==
    IF message.kind = "trades" /\ db_trader[message.user] = "absent"
    THEN [db_trader EXCEPT ![message.user] = "active"]
    ELSE db_trader

\* async for message in websocket: a message arrives.  The service leaves the
\* iteration when it was stopped; otherwise the message is parsed and handled,
\* what that raises is logged, and the stream goes on listening
DsMessage ==
    /\ ds_pc = "listening"
    /\ \E message \in InboundMessages :
          IF ds_impl = "service" /\ ~running
          THEN /\ ds_pc' = "loop"
               /\ ds_socket' = "closed"
               /\ ds_sub' = 0
               /\ UNCHANGED <<retry_count, ds_wait_time, ds_failures, db_trader, dsHist>>
          ELSE /\ UNCHANGED ds_stop_pc
               /\ ds_last' = message
               /\ ds_tick' = ~ds_tick
               /\ ds_dropped' = (ds_dropped \/ Malformed(message))
               /\ IF Malformed(message) /\ ~Caught(message)
                  THEN ExceptHandler /\ UNCHANGED db_trader
                  ELSE /\ db_trader' = IF Malformed(message) THEN db_trader
                                       ELSE Registered(message)
                       /\ UNCHANGED <<ds_pc, ds_socket, ds_sub, retry_count, ds_wait_time,
                                      ds_failures>>
    /\ UNCHANGED <<ds_impl, running, consec_fail, ds_attempted, ds_waited>>
    /\ UNCHANGED <<db_last_tracked, db_snaps, db_events>>

\* the iteration raises ConnectionClosed (a transport error, an abnormal close)
DsCloseError ==
    /\ UNCHANGED dsHist
    /\ ds_pc = "listening"
    /\ ExceptHandler
    /\ UNCHANGED <<consec_fail, ds_attempted, ds_waited>>

\* the peer closes the socket normally: the iteration ends without raising and
\* control falls out of the async with, back to the while test
DsCloseClean ==
    /\ UNCHANGED ds_failures
    /\ UNCHANGED dsHist
    /\ ds_pc = "listening"
    /\ ds_pc' = "loop"
    /\ ds_socket' = "closed"
    /\ ds_sub' = 0
    /\ UNCHANGED <<ds_impl, retry_count, running, ds_wait_time,
                   consec_fail, ds_attempted, ds_waited>>

\* asyncio.sleep(wait_time) of the except block is over
DsBackoffDone ==
    /\ UNCHANGED ds_failures
    /\ UNCHANGED dsHist
    /\ ds_pc = "backoff"
    /\ ds_pc' = "loop"
    /\ ds_wait_time' = 0
    /\ ds_waited' = TRUE
    /\ UNCHANGED <<ds_impl, retry_count, running, ds_socket, ds_sub,
                   consec_fail, ds_attempted>>

\* stop(), or _signal_handler on SIGINT or SIGTERM
DsStop ==
    /\ UNCHANGED ds_failures
    /\ UNCHANGED <<ds_last, ds_tick, ds_dropped>>
    /\ ds_stop_pc' = ds_pc
    /\ ds_impl = "service"
    /\ running
    /\ ds_pc # "done"
    /\ running' = FALSE
    /\ UNCHANGED <<ds_impl, ds_pc, retry_count, ds_socket, ds_sub, ds_wait_time,
                   consec_fail, ds_attempted, ds_waited>>

StreamNext ==
    \/ DsLoopCheck /\ UNCHANGED <<rlVars, dbVars, trVars, gocVars, schVars, skVars, spVars, dfVars, ovVars, epVars, mrVars>>
    \/ DsConnectOk /\ UNCHANGED <<rlVars, dbVars, trVars, gocVars, schVars, skVars, spVars, dfVars, ovVars, epVars, mrVars>>
    \/ DsConnectFail /\ UNCHANGED <<rlVars, dbVars, trVars, gocVars, schVars, skVars, spVars, dfVars, ovVars, epVars, mrVars>>
    \/ DsSubscribe /\ UNCHANGED <<rlVars, dbVars, trVars, gocVars, schVars, skVars, spVars, dfVars, ovVars, epVars, mrVars>>
    \/ DsSubscribeFail /\ UNCHANGED <<rlVars, dbVars, trVars, gocVars, schVars, skVars, spVars, dfVars, ovVars, epVars, mrVars>>
    \/ DsMessage /\ UNCHANGED <<rlVars, trVars, gocVars, schVars, skVars, spVars, dfVars, ovVars, epVars, mrVars>>
    \/ DsCloseError /\ UNCHANGED <<rlVars, dbVars, trVars, gocVars, schVars, skVars, spVars, dfVars, ovVars, epVars, mrVars>>
    \/ DsCloseClean /\ UNCHANGED <<rlVars, dbVars, trVars, gocVars, schVars, skVars, spVars, dfVars, ovVars, epVars, mrVars>>
    \/ DsBackoffDone /\ UNCHANGED <<rlVars, dbVars, trVars, gocVars, schVars, skVars, spVars, dfVars, ovVars, epVars, mrVars>>
    \/ DsStop /\ UNCHANGED <<rlVars, dbVars, trVars, gocVars, schVars, skVars, spVars, dfVars, ovVars, epVars, mrVars>>

\* the steps the event loop takes by itself: the while test, the outcome of a
\* connection attempt, the sends, the end of a sleep.  What the peer does to
\* an open socket (a message, a close) and a stop request are not among them
DsProgram ==
    (DsLoopCheck \/ DsConnectOk \/ DsConnectFail \/ DsSubscribe \/ DsSubscribeFail
        \/ DsBackoffDone) /\ UNCHANGED <<rlVars, dbVars, trVars, gocVars, schVars, skVars, spVars, dfVars, ovVars, epVars, mrVars>>

\* the discovery stream while another component is looked at
DsParked ==
    /\ ds_impl = "service"
    /\ ds_pc = "done"
    /\ retry_count = 0
    /\ running = FALSE
    /\ ds_socket = "none"
    /\ ds_sub = 0
    /\ ds_wait_time = 0
    /\ consec_fail = 0
    /\ ds_failures = 0
    /\ ds_attempted = FALSE
    /\ ds_waited = FALSE
    /\ ds_last = [kind |-> "none"]
    /\ ds_tick = FALSE
    /\ ds_dropped = FALSE
    /\ ds_stop_pc = "none"

(***************************************************************************)
(* Celery beat and the worker pool: when passes start                      *)
(***************************************************************************)

\* the tasks of beat_schedule: the discovery stream, the Batch Tracker pass,
\* the Scoring Engine pass
BeatTasks == {"discover", "track", "score"}

\* --concurrency=4 of process_manager.py, --pool=solo --concurrency=1 of
\* process_manager_win.py
Concurrencies == {1, 4}

\* the child processes a pool can have
PoolSlots == 1..4

SchInit ==
    /\ concurrency \in Concurrencies
    /\ sch_queue = <<>>
    /\ sch_running = [p \in PoolSlots |-> "idle"]

\* beat: the period of an entry has elapsed, and its task message is sent.
\* Nothing is looked up about earlier messages or running tasks
BeatFire(task) ==
    /\ Len(sch_queue) < MaxQueue
    /\ sch_queue' = Append(sch_queue, task)
    /\ UNCHANGED <<concurrency, sch_running>>

\* an idle child process of the pool takes the oldest message and runs its
\* task function (task_track_traders_batch, task_calculate_leaderboard, ...)
WorkerTake(p) ==
    /\ p <= concurrency
    /\ sch_running[p] = "idle"
    /\ sch_queue # <<>>
    /\ sch_running' = [sch_running EXCEPT ![p] = Head(sch_queue)]
    /\ sch_queue' = Tail(sch_queue)
    /\ UNCHANGED concurrency

\* the task function returns
TaskDone(p) ==
    /\ sch_running[p] # "idle"
    /\ sch_running' = [sch_running EXCEPT ![p] = "idle"]
    /\ UNCHANGED <<concurrency, sch_queue>>

SchedNext ==
    \/ \E task \in BeatTasks : BeatFire(task) /\ UNCHANGED <<rlVars, dbVars, trVars, gocVars, dsVars, skVars, spVars, dfVars, ovVars, epVars, mrVars>>
    \/ \E p \in PoolSlots : WorkerTake(p) /\ UNCHANGED <<rlVars, dbVars, trVars, gocVars, dsVars, skVars, spVars, dfVars, ovVars, epVars, mrVars>>
    \/ \E p \in PoolSlots : TaskDone(p) /\ UNCHANGED <<rlVars, dbVars, trVars, gocVars, dsVars, skVars, spVars, dfVars, ovVars, epVars, mrVars>>

\* beat and the worker while another component is looked at
SchParked ==
    /\ concurrency = 1
    /\ sch_queue = <<>>
    /\ sch_running = [p \in PoolSlots |-> "idle"]

(***************************************************************************)
(* Scoring Engine, Part B: normalization and the composite score           *)
(***************************************************************************)

\* the keys of weights, in the order of the dict
WeightKeys == <<"win_rate", "total_volume_usd", "max_drawdown", "avg_risk_ratio",
                "max_profit_usd">>

\* mutant: a drawdown weight of 0.35, the weights summing to 1.1
weightsHeavy(key) ==
    CASE key = "win_rate" -> 6
      [] key = "total_volume_usd" -> 4
      [] key = "max_drawdown" -> 7
      [] key = "avg_risk_ratio" -> 3
      [] key = "max_profit_usd" -> 2

\* weights, in twentieths: 0.3, 0.2, 0.25, 0.15, 0.1
weights(key) ==
    CASE key = "win_rate" -> 6
      [] key = "total_volume_usd" -> 4
      [] key = "max_drawdown" -> 5
      [] key = "avg_risk_ratio" -> 3
      [] key = "max_profit_usd" -> 2

\* the raw values a metric takes
MetricValues == {0, 1, 3}

\* normalized values are counted in sixths, which is exact for every range
\* MetricValues allows (1, 2 and 3)
UNIT == 6

\* round(trader_score, 4): the score in ten-thousandths
DECIMALS == 10000

\* the score 1.0, in the unit of weights times the unit of normalized values
SCORE_ONE == 20 * UNIT

Max(a, b) == IF a > b THEN a ELSE b

\* mutant: the score is cut after its fourth decimal
Truncated4(score) == (score * DECIMALS) \div SCORE_ONE

\* round(trader_score, 4), in ten-thousandths, of a score counted in units of
\* 1 / SCORE_ONE (no score of the model lies halfway between two of them)
Rounded4(score) == (2 * score * DECIMALS + SCORE_ONE) \div (2 * SCORE_ONE)

\* min(values), max(values)
MinOf(S) == CHOOSE x \in S : \A y \in S : x <= y
MaxOf(S) == CHOOSE x \in S : \A y \in S : x >= y

\* normalization_params[key], from all_metrics[key]
normalization_params(values) ==
    LET min_val == MinOf(values)
        max_val == MaxOf(values)
    IN  [min |-> min_val, max |-> max_val,
         range |-> IF max_val # min_val THEN max_val - min_val ELSE 1]

\* mutant: the minimum is not subtracted
MinMaxNoOffset(value, params) ==
    IF params.range > 0
    THEN (value * UNIT) \div params.range
    ELSE 0

\* min-max normalization of one value
MinMax(value, params) ==
    IF params.range > 0
    THEN ((value - params.min) * UNIT) \div params.range
    ELSE 0

\* "bad" metrics are inverted: lower is better
Invert(key, normalized) ==
    IF key = "max_drawdown" THEN UNIT - normalized ELSE normalized

\* max(0.0, min(1.0, normalized))
Clamp(normalized) == Max(0, Min(UNIT, normalized))

\* normalized_scores[key] of a trader with the given value
NormalizedScore(key, value, params) == Clamp(Invert(key, MinMax(value, params)))

SkInit ==
    /\ sk_n \in 1..MaxPop
    /\ sk_obs \in 1..sk_n
    /\ sk_key = 0
    /\ sk_values = [i \in 1..sk_n |-> 0]
    /\ normalized_scores = [i \in 1..sk_n |-> 0]
    /\ trader_score = 0
    /\ stored_score = -1

\* the next key of weights is taken: its values over the population give
\* normalization_params[key], each trader's value is normalized, inverted for
\* max_drawdown and clamped, and enters the trader's score with its weight.
\* Every trader's sum is formed alike and none depends on another's sum, so
\* one trader's sum is followed.  After the last key the sum is rounded and
\* stored as metrics['trader_score']
ScoreKey(values) ==
    /\ sk_key < Len(WeightKeys)
    /\ LET key == WeightKeys[sk_key + 1]
           params == normalization_params({values[i] : i \in 1..sk_n})
           scores == [i \in 1..sk_n |-> NormalizedScore(key, values[i], params)]
       IN  /\ sk_values' = values
           /\ normalized_scores' = scores
           /\ trader_score' = trader_score + scores[sk_obs] * weights(key)
           /\ stored_score' =
                  IF sk_key + 1 = Len(WeightKeys)
                  THEN Rounded4(trader_score + scores[sk_obs] * weights(key))
                  ELSE stored_score
    /\ sk_key' = sk_key + 1
    /\ UNCHANGED <<sk_n, sk_obs>>

ScoreNext ==
    \E values \in [1..sk_n -> MetricValues] :
        ScoreKey(values) /\ UNCHANGED <<rlVars, dbVars, trVars, gocVars, dsVars, schVars, spVars, dfVars, ovVars, epVars, mrVars>>

\* the scores while another component is looked at
SkParked ==
    /\ sk_n = 1
    /\ sk_obs = 1
    /\ sk_key = 0
    /\ sk_values = [i \in 1..1 |-> 0]
    /\ normalized_scores = [i \in 1..1 |-> 0]
    /\ trader_score = 0
    /\ stored_score = -1

(***************************************************************************)
(* Scoring Engine: the pass                                                *)
(***************************************************************************)

\* the columns of leaderboard_metrics that hold metrics
Columns == {"account_age_days", "total_volume_usd", "win_rate", "avg_risk_ratio",
            "max_drawdown", "max_profit_usd", "max_loss_usd"}

\* no row of leaderboard_metrics for a trader
NoRow == [absent |-> TRUE]

\* _get_default_metrics()
DefaultMetrics == [k \in Columns |-> 0]

\* what _calculate_individual_metrics returns: a trader without events, one of
\* low volume and one of high volume, in levels 0 .. 2 of each metric
RawMetricSets ==
    { DefaultMetrics,
      [account_age_days |-> 1, total_volume_usd |-> 1, win_rate |-> 1,
       avg_risk_ratio |-> 1, max_drawdown |-> 2, max_profit_usd |-> 1,
       max_loss_usd |-> 1],
      [account_age_days |-> 2, total_volume_usd |-> 2, win_rate |-> 2,
       avg_risk_ratio |-> 2, max_drawdown |-> 1, max_profit_usd |-> 2,
       max_loss_usd |-> 1] }

\* a row written by task_calculate_leaderboard of tasks.py: the volume, and 0.0
\* for the other metrics
LegacyRow == [k \in Columns |-> IF k = "total_volume_usd" THEN 1 ELSE 0]

\* trader_data['metrics'] with the key trader_score added
WithScore(metrics, score) ==
    [k \in (DOMAIN metrics) \cup {"trader_score"} |->
        IF k = "trader_score" THEN score ELSE metrics[k]]

\* _calculate_trader_scores(trader_metrics_list)
calculate_trader_scores(list) ==
    IF list = <<>> THEN list
    ELSE LET params == [key \in {WeightKeys[j] : j \in 1..Len(WeightKeys)} |->
                           normalization_params({list[i].metrics[key] : i \in 1..Len(list)})]
             RECURSIVE Sum(_, _)
             Sum(metrics, j) ==
                 IF j = 0 THEN 0
                 ELSE Sum(metrics, j - 1)
                      + NormalizedScore(WeightKeys[j], metrics[WeightKeys[j]],
                                        params[WeightKeys[j]]) * weights(WeightKeys[j])
         IN  [i \in 1..Len(list) |->
                 [list[i] EXCEPT !.metrics =
                     WithScore(list[i].metrics, Sum(list[i].metrics, Len(WeightKeys)))]]

SpInit ==
    /\ lb_rows \in {f \in [Traders -> {NoRow, LegacyRow}] :
                       \A t \in Traders : db_trader[t] = "absent" => f[t] = NoRow}
    /\ sp_pc = "idle"
    /\ sp_traders = <<>>
    /\ sp_idx = 0
    /\ trader_metrics_list = <<>>
    /\ sp_failed = FALSE
    /\ sp_pending = [t \in Traders |-> NoRow]
    /\ sp_before = lb_rows
    /\ sp_computed = [t \in Traders |-> NoRow]
    /\ sp_raised = {}
    /\ sp_touched = {}
    /\ sp_scored = <<>>
    /\ sp_save_error = FALSE
    /\ sp_outcome = "none"

\* the pass is over: finally db.close(), and the task returns
PassEnd(outcome) ==
    /\ sp_pc' = "idle"
    /\ sp_traders' = <<>>
    /\ sp_idx' = 0
    /\ trader_metrics_list' = <<>>
    /\ sp_failed' = FALSE
    /\ sp_pending' = [t \in Traders |-> NoRow]
    /\ sp_outcome' = outcome

\* lines 23-32: the pass begins and queries the active traders; with none it
\* returns at once
PassBegin ==
    /\ sp_pc = "idle"
    /\ sp_before' = lb_rows
    /\ sp_computed' = [t \in Traders |-> NoRow]
    /\ sp_raised' = {}
    /\ sp_touched' = {}
    /\ sp_scored' = <<>>
    /\ sp_save_error' = FALSE
    /\ IF ActiveTraders = {}
       THEN PassEnd("none")
       ELSE /\ sp_pc' = "partA"
            /\ sp_traders' = SetToSeq(ActiveTraders)
            /\ sp_idx' = 1
            /\ trader_metrics_list' = <<>>
            /\ sp_outcome' = "none"
            /\ UNCHANGED <<sp_failed, sp_pending>>
    /\ UNCHANGED lb_rows

InPartA == sp_pc = "partA" /\ sp_idx <= Len(sp_traders)

\* the loop of Part A moves on; after the last trader Part B follows
PartAStep(trader_data) ==
    /\ trader_metrics_list' = Append(trader_metrics_list, trader_data)
    /\ sp_idx' = sp_idx + 1
    /\ sp_pc' = IF sp_idx = Len(sp_traders) THEN "partB" ELSE sp_pc
    /\ UNCHANGED <<lb_rows, sp_traders, sp_pending, sp_before, sp_touched, sp_scored,
                   sp_save_error, sp_outcome>>

\* lines 38-44: _calculate_individual_metrics returns the trader's metrics
PartAOk(metrics) ==
    /\ InPartA
    /\ ~sp_failed
    /\ PartAStep([trader |-> sp_traders[sp_idx], metrics |-> metrics])
    /\ sp_computed' = [sp_computed EXCEPT ![sp_traders[sp_idx]] = metrics]
    /\ UNCHANGED <<sp_failed, sp_raised>>

\* mutant: a Session that stays usable after a database error
AfterDbErrorUsable == FALSE

\* the state of the Session's transaction after a statement of it failed: the
\* transaction is aborted, and every later statement or flush raises
AfterDbError == TRUE

\* lines 45-52: _calculate_individual_metrics raises on the trader's data (an
\* event whose details is not a dict); the trader gets the default metrics
PartARaise ==
    /\ InPartA
    /\ ~sp_failed
    /\ PartAStep([trader |-> sp_traders[sp_idx], metrics |-> DefaultMetrics])
    /\ sp_raised' = sp_raised \cup {sp_traders[sp_idx]}
    /\ UNCHANGED <<sp_failed, sp_computed>>

\* lines 45-52: the query of the trader's events raises a database error, or
\* raises because the transaction has failed before; the trader gets the
\* default metrics
PartADbError ==
    /\ InPartA
    /\ PartAStep([trader |-> sp_traders[sp_idx], metrics |-> DefaultMetrics])
    /\ sp_raised' = sp_raised \cup {sp_traders[sp_idx]}
    /\ sp_failed' = (sp_failed \/ AfterDbError)
    /\ UNCHANGED sp_computed

\* line 55: Part B
PartB ==
    /\ sp_pc = "partB"
    /\ trader_metrics_list' = calculate_trader_scores(trader_metrics_list)
    /\ sp_scored' = calculate_trader_scores(trader_metrics_list)
    /\ sp_pc' = "save"
    /\ sp_idx' = 1
    /\ UNCHANGED <<lb_rows, sp_traders, sp_failed, sp_pending, sp_before, sp_computed,
                   sp_raised, sp_touched, sp_save_error, sp_outcome>>

InSave == sp_pc = "save" /\ sp_idx <= Len(trader_metrics_list)

\* the trader's row as the Session sees it
SessionRow(t) == IF sp_pending[t] # NoRow THEN sp_pending[t] ELSE lb_rows[t]

\* the attributes of metrics that are columns of leaderboard_metrics;
\* trader_score is none, and setattr leaves it on the Python object only
ColumnsOf(metrics) == [k \in Columns |-> metrics[k]]

\* _save_trader_metrics without a database error.  An existing row gets the
\* metrics; for a trader without a row, LeaderboardMetric(trader_id, **metrics)
\* raises TypeError on the keyword trader_score, which line 61 catches: no row
\* is added
SaveTrader ==
    /\ InSave
    /\ ~sp_failed
    /\ LET trader_data == trader_metrics_list[sp_idx]
           t == trader_data.trader
       IN  IF SessionRow(t) # NoRow
           THEN /\ sp_pending' = [sp_pending EXCEPT ![t] = ColumnsOf(trader_data.metrics)]
                /\ sp_touched' = sp_touched \cup {t}
           ELSE UNCHANGED <<sp_pending, sp_touched>>
    /\ sp_idx' = sp_idx + 1
    /\ UNCHANGED <<lb_rows, sp_pc, sp_traders, trader_metrics_list, sp_failed, sp_before,
                   sp_computed, sp_raised, sp_scored, sp_save_error, sp_outcome>>

\* the query of _save_trader_metrics, or the flush it triggers, raises a
\* database error, which line 61 catches; what the Session had flushed is
\* rolled back with the transaction
SaveDbError ==
    /\ InSave
    /\ ~sp_failed
    /\ sp_failed' = AfterDbError
    /\ sp_pending' = IF AfterDbError THEN [t \in Traders |-> NoRow] ELSE sp_pending
    /\ sp_save_error' = TRUE
    /\ sp_idx' = sp_idx + 1
    /\ UNCHANGED <<lb_rows, sp_pc, sp_traders, trader_metrics_list, sp_before,
                   sp_computed, sp_raised, sp_touched, sp_scored, sp_outcome>>

\* _save_trader_metrics after the transaction has failed: the query raises,
\* line 61 catches
SaveAfterDbError ==
    /\ InSave
    /\ sp_failed
    /\ sp_idx' = sp_idx + 1
    /\ UNCHANGED <<lb_rows, sp_pc, sp_traders, trader_metrics_list, sp_failed, sp_pending,
                   sp_before, sp_computed, sp_raised, sp_touched, sp_scored,
                   sp_save_error, sp_outcome>>

SaveOver == sp_pc = "save" /\ sp_idx > Len(trader_metrics_list)

\* line 64: db.commit() makes the rows of the Session the rows of the table
PassCommit ==
    /\ SaveOver
    /\ ~sp_failed
    /\ lb_rows' = [t \in Traders |-> SessionRow(t)]
    /\ PassEnd("committed")
    /\ UNCHANGED <<sp_before, sp_computed, sp_raised, sp_touched, sp_scored,
                   sp_save_error>>

\* line 64 with a failed transaction, or failing itself: db.commit() raises and
\* line 68 rolls back, or ends the aborted transaction, which the database
\* rolls back; nothing of the pass is stored
PassRollback ==
    /\ SaveOver
    /\ sp_save_error' = (sp_save_error \/ ~sp_failed)
    /\ PassEnd("rolledback")
    /\ UNCHANGED <<lb_rows, sp_before, sp_computed, sp_raised, sp_touched, sp_scored>>

PassNext ==
    \/ PassBegin /\ UNCHANGED <<rlVars, dbVars, trVars, gocVars, dsVars, schVars, skVars, dfVars, ovVars, epVars, mrVars>>
    \/ \E metrics \in RawMetricSets :
           PartAOk(metrics) /\ UNCHANGED <<rlVars, dbVars, trVars, gocVars, dsVars, schVars, skVars, dfVars, ovVars, epVars, mrVars>>
    \/ PartARaise /\ UNCHANGED <<rlVars, dbVars, trVars, gocVars, dsVars, schVars, skVars, dfVars, ovVars, epVars, mrVars>>
    \/ PartADbError /\ UNCHANGED <<rlVars, dbVars, trVars, gocVars, dsVars, schVars, skVars, dfVars, ovVars, epVars, mrVars>>
    \/ PartB /\ UNCHANGED <<rlVars, dbVars, trVars, gocVars, dsVars, schVars, skVars, dfVars, ovVars, epVars, mrVars>>
    \/ SaveTrader /\ UNCHANGED <<rlVars, dbVars, trVars, gocVars, dsVars, schVars, skVars, dfVars, ovVars, epVars, mrVars>>
    \/ SaveDbError /\ UNCHANGED <<rlVars, dbVars, trVars, gocVars, dsVars, schVars, skVars, dfVars, ovVars, epVars, mrVars>>
    \/ SaveAfterDbError /\ UNCHANGED <<rlVars, dbVars, trVars, gocVars, dsVars, schVars, skVars, dfVars, ovVars, epVars, mrVars>>
    \/ PassCommit /\ UNCHANGED <<rlVars, dbVars, trVars, gocVars, dsVars, schVars, skVars, dfVars, ovVars, epVars, mrVars>>
    \/ PassRollback /\ UNCHANGED <<rlVars, dbVars, trVars, gocVars, dsVars, schVars, skVars, dfVars, ovVars, epVars, mrVars>>

\* the scoring pass while another component is looked at
SpParked ==
    /\ lb_rows = [t \in Traders |-> NoRow]
    /\ sp_pc = "idle"
    /\ sp_traders = <<>>
    /\ sp_idx = 0
    /\ trader_metrics_list = <<>>
    /\ sp_failed = FALSE
    /\ sp_pending = [t \in Traders |-> NoRow]
    /\ sp_before = [t \in Traders |-> NoRow]
    /\ sp_computed = [t \in Traders |-> NoRow]
    /\ sp_raised = {}
    /\ sp_touched = {}
    /\ sp_scored = <<>>
    /\ sp_save_error = FALSE
    /\ sp_outcome = "none"

(***************************************************************************)
(* State Diff Engine: detect_position_changes on any pair of snapshots     *)
(***************************************************************************)

\* sizes in units of 1e-9: flat, 5e-9, 2e-8 long and short, 2.5e-8
DiffSizes == {-20, 0, 5, 20, 25}

\* the epsilon 1e-8 of the specification, in the unit of DiffSizes
EPSILON == 10

\* entryPx of a position: 50000, or the key is missing
DiffPrices == {NoPx, 50000}

\* assetPositions by coin: each coin is absent or has one position
Snapshots ==
    UNION {[held -> [szi : DiffSizes, entryPx : DiffPrices]] : held \in SUBSET DiffCoins}

\* the trader and the time of the call
DiffTrader == "t1"
DiffTime == 1

\* the orders a set of the coins may be iterated in: str hashes are salted
\* anew at every interpreter start
HashOrders ==
    {o \in [1..Len(CoinOrder) -> DiffCoins] : \A i, j \in 1..Len(CoinOrder) : i # j => o[i] # o[j]}

DfInit ==
    /\ df_pc = "input"
    /\ df_previous \in Snapshots
    /\ df_current \in Snapshots
    /\ df_events = <<>>
    /\ df_order \in HashOrders
    /\ df_calls = 0
    /\ df_first = <<>>
    /\ df_restarted = FALSE

\* mutant: a diff that pops the positions it has compared off current_state
DiffDraining ==
    /\ df_calls < MaxDiffCalls
    /\ df_events' = detect_position_changes(df_previous, df_current, DiffTime, DiffTrader)
    /\ df_first' = IF df_calls = 0 THEN df_events' ELSE df_first
    /\ df_calls' = df_calls + 1
    /\ df_pc' = "done"
    /\ df_current' = <<>>
    /\ UNCHANGED <<df_previous, df_order, df_restarted>>
    /\ UNCHANGED dbVars

\* detect_position_changes(previous_state, current_state, timestamp, trader_id):
\* the states are read only, the TradeEvent objects are built and returned
\* without a Session
Diff ==
    /\ df_calls < MaxDiffCalls
    /\ df_events' = detect_position_changes(df_previous, df_current, DiffTime, DiffTrader)
    /\ df_first' = IF df_calls = 0 THEN df_events' ELSE df_first
    /\ df_calls' = df_calls + 1
    /\ df_pc' = "done"
    /\ UNCHANGED <<df_previous, df_current, df_order, df_restarted>>
    /\ UNCHANGED dbVars

\* the worker is restarted between two invocations: a new interpreter, with
\* newly salted str hashes
InterpreterRestart ==
    /\ df_calls = 1
    /\ ~df_restarted
    /\ df_order' \in HashOrders
    /\ df_restarted' = TRUE
    /\ UNCHANGED <<df_pc, df_previous, df_current, df_events, df_calls, df_first>>
    /\ UNCHANGED dbVars

DiffNext ==
    \/ Diff /\ UNCHANGED <<rlVars, trVars, gocVars, dsVars, schVars, skVars, spVars, ovVars, epVars, mrVars>>
    \/ InterpreterRestart /\ UNCHANGED <<rlVars, trVars, gocVars, dsVars, schVars, skVars, spVars, ovVars, epVars, mrVars>>

\* the diff while another component is looked at
DfParked ==
    /\ df_pc = "done"
    /\ df_previous = <<>>
    /\ df_current = <<>>
    /\ df_events = <<>>
    /\ df_order = CoinOrder
    /\ df_calls = 0
    /\ df_first = <<>>
    /\ df_restarted = FALSE

(***************************************************************************)
(* Batch Tracker runs of two child processes of the worker pool, each with *)
(* its own Session on the one store                                        *)
(***************************************************************************)

\* the child processes that may run task_track_traders_batch at once
Passes == {"p1", "p2"}

\* a store with one active trader, never tracked
OvStore ==
    /\ db_trader = [t \in Traders |-> IF t = "t1" THEN "active" ELSE "absent"]
    /\ db_last_tracked = [t \in Traders |-> NULL]
    /\ db_snaps = [t \in Traders |-> <<>>]
    /\ db_events = [t \in Traders |-> <<>>]

OvInit ==
    /\ ov_clock = 1
    /\ ov_pc = [p \in Passes |-> "idle"]
    /\ ov_batch = [p \in Passes |-> <<>>]
    /\ ov_snaps = [p \in Passes |-> <<>>]
    /\ ov_events = [p \in Passes |-> <<>>]
    /\ ov_diffs = {}

\* lines 39-53: the process opens its Session and selects its batch from the
\* committed rows
OvBegin(p) ==
    /\ ov_pc[p] = "idle"
    /\ ov_clock <= MaxClock
    /\ \E b \in BatchQuery :
          /\ Len(b) > 0
          /\ ov_batch' = [ov_batch EXCEPT ![p] = b]
    /\ ov_pc' = [ov_pc EXCEPT ![p] = "loop"]
    /\ UNCHANGED <<ov_clock, ov_snaps, ov_events, ov_diffs>>
    /\ UNCHANGED dbVars

\* lines 55-108 for the one trader of the batch: the state is fetched, the most
\* recent committed record is read, the events and the new record are added
OvTrack(p) ==
    /\ ov_pc[p] = "loop"
    /\ \E current_state \in UserStates :
          LET t == ov_batch[p][1]
              events == IF db_snaps[t] # <<>>
                        THEN detect_position_changes(
                                 db_snaps[t][PreviousStateRecord(t)].state,
                                 current_state, ov_clock, t)
                        ELSE <<>>
          IN  /\ ov_events' = [ov_events EXCEPT ![p] = events]
              /\ ov_snaps' = [ov_snaps EXCEPT ![p] =
                     <<[trader |-> t, ts |-> ov_clock, state |-> current_state]>>]
              /\ ov_diffs' = IF db_snaps[t] # <<>>
                             THEN ov_diffs \cup
                                  {[trader |-> t, ts |-> ov_clock,
                                    prev_ts |-> db_snaps[t][PreviousStateRecord(t)].ts]}
                             ELSE ov_diffs
    /\ ov_clock' = ov_clock + 1
    /\ ov_pc' = [ov_pc EXCEPT ![p] = "commit"]
    /\ UNCHANGED ov_batch
    /\ UNCHANGED dbVars

\* lines 113-120: db.commit() makes the rows of the process's Session the
\* store's, and the Session is closed
OvCommit(p) ==
    /\ ov_pc[p] = "commit"
    /\ db_snaps' = [t \in Traders |-> Appended(db_snaps[t], ov_snaps[p], t)]
    /\ db_events' = [t \in Traders |-> Appended(db_events[t], ov_events[p], t)]
    /\ db_last_tracked' = [t \in Traders |->
           IF t = ov_batch[p][1] THEN ov_snaps[p][1].ts ELSE db_last_tracked[t]]
    /\ UNCHANGED db_trader
    /\ ov_pc' = [ov_pc EXCEPT ![p] = "idle"]
    /\ ov_batch' = [ov_batch EXCEPT ![p] = <<>>]
    /\ ov_snaps' = [ov_snaps EXCEPT ![p] = <<>>]
    /\ ov_events' = [ov_events EXCEPT ![p] = <<>>]
    /\ UNCHANGED <<ov_clock, ov_diffs>>

OverlapNext ==
    \/ \E p \in Passes : OvBegin(p) /\ UNCHANGED <<rlVars, trVars, gocVars, dsVars, schVars, skVars, spVars, dfVars, epVars, mrVars>>
    \/ \E p \in Passes : OvTrack(p) /\ UNCHANGED <<rlVars, trVars, gocVars, dsVars, schVars, skVars, spVars, dfVars, epVars, mrVars>>
    \/ \E p \in Passes : OvCommit(p) /\ UNCHANGED <<rlVars, trVars, gocVars, dsVars, schVars, skVars, spVars, dfVars, epVars, mrVars>>

\* the overlapping runs while another component is looked at
OvParked ==
    /\ ov_clock = 1
    /\ ov_pc = [p \in Passes |-> "idle"]
    /\ ov_batch = [p \in Passes |-> <<>>]
    /\ ov_snaps = [p \in Passes |-> <<>>]
    /\ ov_events = [p \in Passes |-> <<>>]
    /\ ov_diffs = {}

(***************************************************************************)
(* Entry points: where an exception raised inside each of them goes        *)
(***************************************************************************)

EntryPoints == {"track", "score", "stream_task", "service_main"}

\* what the network, the database and the publisher can do to a call
Failures == {"network", "database", "publisher"}

\* one place of an entry point's code: the places control reaches when it
\* completes, the place control reaches when it raises, what can make it
\* raise, and what it is: a call that opens a Session ("open"), a finally
\* block that closes one ("close"), an except block ("handler"), an except
\* block that ends with raise ("reraise"), anything else ("plain")
Site(next, handler, raises, role) ==
    [next |-> next, handler |-> handler, raises |-> raises, role |-> role]

\* mutant: the entry points without their outermost try
OutermostMissing(kind) == "propagated"

\* the except Exception around the whole body of the entry point: lines 33-34
\* of tracking_task.py, 73-74 of leaderboard_task.py, 28-29 of
\* discovery_task.py, 186-189 of discovery_service.py
Outermost(kind) == "outer"

\* task_track_traders_batch and _track_traders_batch_async.  A fetch that fails
\* inside the client comes back as None and the loop continues (lines 60-62);
\* one that raised would go to the except of line 110.  The log line of that
\* except reads trader.address, which raises once a flush has failed.
TrackSites ==
    [start |-> Site({"get_db"}, Outermost("track"), {}, "plain"),
     get_db |-> Site({"query"}, Outermost("track"), {"database"}, "open"),
     query |-> Site({"fetch", "finally"}, "except", {"database"}, "plain"),
     fetch |-> Site({"previous", "next"}, "trader_except", {"network"}, "plain"),
     previous |-> Site({"flush", "next"}, "trader_except", {"database"}, "plain"),
     flush |-> Site({"publish"}, "trader_except", {"database"}, "plain"),
     publish |-> Site({"flush", "next"}, "publish_except", {"publisher"}, "plain"),
     publish_except |-> Site({"flush", "next"}, "trader_except", {}, "handler"),
     trader_except |-> Site({"next"}, "except", {"database"}, "handler"),
     next |-> Site({"fetch", "commit"}, "except", {}, "plain"),
     commit |-> Site({"finally"}, "except", {"database"}, "plain"),
     except |-> Site({"finally"}, "finally", {"database"}, "handler"),
     finally |-> Site({"return"}, Outermost("track"), {}, "close"),
     outer |-> Site({"return"}, "propagated", {}, "handler")]

\* task_calculate_leaderboard: the metrics of each trader and the saving of
\* each row have a try of their own, inside the try that rolls back and closes
LeaderboardSites ==
    [start |-> Site({"get_db"}, Outermost("score"), {}, "plain"),
     get_db |-> Site({"query"}, Outermost("score"), {"database"}, "open"),
     query |-> Site({"metrics", "finally"}, "except", {"database"}, "plain"),
     metrics |-> Site({"metrics", "save"}, "metrics_except", {"database"}, "plain"),
     metrics_except |-> Site({"metrics", "save"}, "except", {"database"}, "handler"),
     save |-> Site({"save", "commit"}, "save_except", {"database"}, "plain"),
     save_except |-> Site({"save", "commit"}, "except", {}, "handler"),
     commit |-> Site({"finally"}, "except", {"database"}, "plain"),
     except |-> Site({"finally"}, "finally", {"database"}, "handler"),
     finally |-> Site({"return"}, Outermost("score"), {}, "close"),
     outer |-> Site({"return"}, "propagated", {}, "handler")]

\* task_manage_discovery_stream, _manage_discovery_stream_async and
\* _process_trade_messages: get_or_create_trader rolls back and raises again
\* (utils.py 42-46), into the try of each trade
StreamTaskSites ==
    [start |-> Site({"loop"}, Outermost("stream_task"), {}, "plain"),
     loop |-> Site({"connect", "return"}, Outermost("stream_task"), {}, "plain"),
     connect |-> Site({"subscribe"}, "loop_except", {"network"}, "plain"),
     subscribe |-> Site({"recv"}, "loop_except", {"network"}, "plain"),
     recv |-> Site({"get_db", "recv", "loop"}, "loop_except", {"network"}, "plain"),
     loop_except |-> Site({"loop"}, Outermost("stream_task"), {}, "handler"),
     get_db |-> Site({"trade", "ptm_finally"}, "msg_except", {"database"}, "open"),
     trade |-> Site({"trade", "ptm_finally"}, "goc_except", {"database"}, "plain"),
     goc_except |-> Site({}, "trade_except", {"database"}, "reraise"),
     trade_except |-> Site({"trade", "ptm_finally"}, "ptm_except", {}, "handler"),
     ptm_except |-> Site({"ptm_finally"}, "ptm_finally", {"database"}, "handler"),
     ptm_finally |-> Site({"recv"}, "msg_except", {}, "close"),
     msg_except |-> Site({"recv"}, "loop_except", {}, "handler"),
     outer |-> Site({"return"}, "propagated", {}, "handler")]

\* main, WebSocketDiscoveryService.start, _listen_for_messages and
\* _process_trade_messages of the standalone service, which queries the
\* trader itself before it calls get_or_create_trader
ServiceSites ==
    [start |-> Site({"loop"}, Outermost("service_main"), {}, "plain"),
     loop |-> Site({"connect", "return"}, Outermost("service_main"), {}, "plain"),
     connect |-> Site({"subscribe"}, "loop_except", {"network"}, "plain"),
     subscribe |-> Site({"recv"}, "loop_except", {"network"}, "plain"),
     recv |-> Site({"get_db", "recv", "loop"}, "loop_except", {"network"}, "plain"),
     loop_except |-> Site({"loop"}, Outermost("service_main"), {}, "handler"),
     get_db |-> Site({"exists", "ptm_finally"}, "msg_except", {"database"}, "open"),
     exists |-> Site({"trade", "exists", "ptm_finally"}, "trade_except", {"database"}, "plain"),
     trade |-> Site({"exists", "ptm_finally"}, "goc_except", {"database"}, "plain"),
     goc_except |-> Site({}, "trade_except", {"database"}, "reraise"),
     trade_except |-> Site({"exists", "ptm_finally"}, "ptm_except", {}, "handler"),
     ptm_except |-> Site({"ptm_finally"}, "ptm_finally", {"database"}, "handler"),
     ptm_finally |-> Site({"recv"}, "msg_except", {}, "close"),
     msg_except |-> Site({"recv"}, "loop_except", {}, "handler"),
     outer |-> Site({"return"}, "propagated", {}, "handler")]

Sites(kind) ==
    CASE kind = "track" -> TrackSites
      [] kind = "score" -> LeaderboardSites
      [] kind = "stream_task" -> StreamTaskSites
      [] kind = "service_main" -> ServiceSites

\* where control has left the entry point: it returned, or an exception left it
Left == {"return", "propagated"}

EpInit ==
    /\ ep_kind \in EntryPoints
    /\ ep_pc = "start"
    /\ ep_exc = "none"
    /\ ep_sessions = 0
    /\ ep_faults = {}
    /\ ep_outer = FALSE

\* control arrives at a place with exception exc in flight: an except block
\* catches it, a finally block and the caller of the entry point do not
Arrive(place, exc) ==
    /\ ep_pc' = place
    /\ ep_exc' = IF place \in Left \/ Sites(ep_kind)[place].role = "close"
                 THEN exc ELSE "none"
    /\ ep_outer' = (ep_outer \/ (exc # "none" /\ place = "outer"))

\* the place completes without raising: a Session is opened or closed, and
\* control goes on, or, after a finally block entered by an exception, to the
\* handler around it
EpStep ==
    /\ ep_pc \notin Left
    /\ LET s == Sites(ep_kind)[ep_pc]
       IN  /\ s.role # "reraise"
           /\ s.role = "open" => ep_sessions < MaxSessions
           /\ ep_sessions' = CASE s.role = "open" -> ep_sessions + 1
                               [] s.role = "close" -> ep_sessions - 1
                               [] OTHER -> ep_sessions
           /\ IF s.role = "close" /\ ep_exc # "none"
              THEN Arrive(s.handler, ep_exc)
              ELSE \E place \in s.next : Arrive(place, "none")
    /\ UNCHANGED <<ep_kind, ep_faults>>

\* the place raises: because of a failure of what it calls (an except block
\* only once the database has failed: its rollback, or its log line reading an
\* expired row), or because it ends with raise
EpRaise ==
    /\ ep_pc \notin Left
    /\ LET s == Sites(ep_kind)[ep_pc]
       IN  \E f \in s.raises :
              /\ s.role \in {"handler", "reraise"} => "database" \in ep_faults
              /\ ep_faults' = ep_faults \cup {f}
              /\ Arrive(s.handler, f)
    /\ UNCHANGED <<ep_kind, ep_sessions>>

EntryNext ==
    \/ EpStep /\ UNCHANGED <<rlVars, dbVars, trVars, gocVars, dsVars, schVars, skVars, spVars, dfVars, ovVars, mrVars>>
    \/ EpRaise /\ UNCHANGED <<rlVars, dbVars, trVars, gocVars, dsVars, schVars, skVars, spVars, dfVars, ovVars, mrVars>>

\* the entry points while another component is looked at
EpParked ==
    /\ ep_kind = "track"
    /\ ep_pc = "return"
    /\ ep_exc = "none"
    /\ ep_sessions = 0
    /\ ep_faults = {}
    /\ ep_outer = FALSE

(***************************************************************************)
(* HyperliquidClient._make_request                                         *)
(***************************************************************************)

\* the weights the methods of the client hand to _make_request
RequestWeights == {1, 2, 20}

\* what the venue and the network can answer to one POST: a 2xx response whose
\* body is a JSON object, a JSON list or the JSON null; a 2xx response whose
\* body is not JSON; a 4xx or 5xx response; no response at all
Responses ==
    {[kind |-> "ok", body |-> b] : b \in {"object", "list", "null"}}
        \cup {[kind |-> "invalid_body"]}
        \cup {[kind |-> "status_error", code |-> c] : c \in {400, 429, 500}}
        \cup {[kind |-> "network_error", error |-> e] : e \in {"ConnectError", "ReadTimeout"}}

\* what lines 61-64 raise on a response: session.post on a network error,
\* raise_for_status on a 4xx or 5xx status, response.json on a body that is
\* not JSON
Raised(response) ==
    CASE response.kind = "network_error" -> response.error
      [] response.kind = "status_error" -> "HTTPStatusError"
      [] response.kind = "invalid_body" -> "JSONDecodeError"
      [] OTHER -> "none"

\* mutant: the second clause catches the errors of httpx only
ExceptClauseHttpxOnly(exc) ==
    CASE exc = "HTTPStatusError" -> "HTTPStatusError"
      [] exc \in {"ConnectError", "ReadTimeout"} -> "Exception"
      [] OTHER -> "none"

\* lines 66-71: the except clause that catches the exception
ExceptClause(exc) ==
    CASE exc = "HTTPStatusError" -> "HTTPStatusError"
      [] OTHER -> "Exception"

MrInit ==
    /\ mr_pc = "idle"
    /\ mr_weight = 0
    /\ mr_response = [kind |-> "none"]
    /\ mr_result = "pending"
    /\ mr_raised = "none"
    /\ mr_posts = 0
    /\ mr_calls = 0

\* _make_request is called and wait_if_needed has returned (line 59)
MrCall(weight) ==
    /\ mr_pc \in {"idle", "returned", "raised"}
    /\ mr_calls < MaxRequests
    /\ mr_calls' = mr_calls + 1
    /\ mr_pc' = "posting"
    /\ mr_weight' = weight
    /\ mr_response' = [kind |-> "none"]
    /\ mr_result' = "pending"
    /\ mr_raised' = "none"
    /\ mr_posts' = 0

\* line 61: session.post is awaited, once, and the venue or the network answers
MrPost(response) ==
    /\ mr_pc = "posting"
    /\ mr_pc' = "posted"
    /\ mr_posts' = mr_posts + 1
    /\ mr_response' = response
    /\ UNCHANGED <<mr_weight, mr_result, mr_raised, mr_calls>>

\* lines 61-71: the body is returned, or what was raised is caught by one of
\* the except clauses, which log and return None
MrFinish ==
    /\ mr_pc = "posted"
    /\ LET exc == Raised(mr_response)
       IN  IF exc = "none"
           THEN /\ mr_result' = IF mr_response.body = "null" THEN "None"
                                ELSE mr_response.body
                /\ mr_pc' = "returned"
                /\ UNCHANGED mr_raised
           ELSE IF ExceptClause(exc) # "none"
                THEN /\ mr_result' = "None"
                     /\ mr_pc' = "returned"
                     /\ UNCHANGED mr_raised
                ELSE /\ mr_raised' = exc
                     /\ mr_pc' = "raised"
                     /\ UNCHANGED mr_result
    /\ UNCHANGED <<mr_weight, mr_response, mr_posts, mr_calls>>

ClientNext ==
    \/ \E weight \in RequestWeights : MrCall(weight) /\ UNCHANGED <<rlVars, dbVars, trVars, gocVars, dsVars, schVars, skVars, spVars, dfVars, ovVars, epVars>>
    \/ \E response \in Responses : MrPost(response) /\ UNCHANGED <<rlVars, dbVars, trVars, gocVars, dsVars, schVars, skVars, spVars, dfVars, ovVars, epVars>>
    \/ MrFinish /\ UNCHANGED <<rlVars, dbVars, trVars, gocVars, dsVars, schVars, skVars, spVars, dfVars, ovVars, epVars>>

\* the client while another component is looked at
MrParked ==
    /\ mr_pc = "idle"
    /\ mr_weight = 0
    /\ mr_response = [kind |-> "none"]
    /\ mr_result = "pending"
    /\ mr_raised = "none"
    /\ mr_posts = 0
    /\ mr_calls = MaxRequests

(***************************************************************************)
(* Specifications                                                          *)
(***************************************************************************)

\* the RateLimiter under its callers
InitRL == RLInit /\ TrParked /\ GocParked /\ DsParked /\ SchParked /\ SkParked /\ SpParked /\ DfParked /\ OvParked /\ EpParked /\ MrParked

SpecRL == InitRL /\ [][RLNext]_vars

\* the windows of the RateLimiter, for one coroutine or two
SpecWindow == InitRL /\ [][WindowNext]_vars

\* the Batch Tracker, cycle after cycle, with the discovery stream adding traders
InitTrack == RLParked /\ DBInit /\ TrInit /\ GocParked /\ DsParked /\ SchParked /\ SkParked /\ SpParked /\ DfParked /\ OvParked /\ EpParked /\ MrParked

SpecTrack == InitTrack /\ [][TrackNext]_vars

\* the Batch Tracker over a store that never fails: fetches may fail and the
\* discovery stream adds traders
TrackNextDbUp ==
    \/ TrackBegin /\ UNCHANGED <<rlVars, gocVars, dsVars, schVars, skVars, spVars, dfVars, ovVars, epVars, mrVars>>
    \/ TrackFetchFailed /\ UNCHANGED <<rlVars, gocVars, dsVars, schVars, skVars, spVars, dfVars, ovVars, epVars, mrVars>>
    \/ TrackTraderOk /\ UNCHANGED <<rlVars, gocVars, dsVars, schVars, skVars, spVars, dfVars, ovVars, epVars, mrVars>>
    \/ TrackCommit /\ UNCHANGED <<rlVars, gocVars, dsVars, schVars, skVars, spVars, dfVars, ovVars, epVars, mrVars>>
    \/ \E t \in Traders : NewTrader(t) /\ UNCHANGED <<rlVars, gocVars, dsVars, schVars, skVars, spVars, dfVars, ovVars, epVars, mrVars>>

\* the steps celery runs to completion once beat has fired the task, which it
\* does every 75 s
TrackRun ==
    (TrackBegin \/ TrackFetchFailed \/ TrackTraderOk \/ TrackCommit) /\ UNCHANGED <<rlVars, gocVars, dsVars, schVars, skVars, spVars, dfVars, ovVars, epVars, mrVars>>

\* the Batch Tracker scheduled forever over a store that never fails
FairTrack ==
    InitTrack /\ [][TrackNextDbUp]_vars /\ WF_vars(TrackRun)

\* the Batch Tracker with a publisher that may raise
InitPub == RLParked /\ DBTracked /\ PubInit /\ GocParked /\ DsParked /\ SchParked /\ SkParked /\ SpParked /\ DfParked /\ OvParked /\ EpParked /\ MrParked

SpecPub == InitPub /\ [][TrackNext]_vars

\* the Batch Tracker of an exchange whose answers may lack szi, over a store
\* that never fails
InitMalformed == RLParked /\ DBTracked /\ MalformedInit /\ GocParked /\ DsParked /\ SchParked /\ SkParked /\ SpParked /\ DfParked /\ OvParked /\ EpParked /\ MrParked

SpecMalformed == InitMalformed /\ [][TrackNextDbUp]_vars

\* two pool processes running the Batch Tracker on one store, at once or in turn
InitOverlap == RLParked /\ OvStore /\ TrackerIdle /\ GocParked /\ DsParked /\ SchParked /\ SkParked /\ SpParked /\ DfParked /\ OvInit /\ EpParked /\ MrParked

SpecOverlap == InitOverlap /\ [][OverlapNext]_vars

\* two discovery workers on one registry
InitGoc == RLParked /\ TrParked /\ GocInit /\ DsParked /\ SchParked /\ SkParked /\ SpParked /\ DfParked /\ OvParked /\ EpParked /\ MrParked

SpecGoc == InitGoc /\ [][GocNext]_vars

\* one run of the discovery stream, in each of its implementations
InitStream == RLParked /\ TrParked /\ GocParked /\ DsInit /\ SchParked /\ SkParked /\ SpParked /\ DfParked /\ OvParked /\ EpParked /\ MrParked

SpecStream == InitStream /\ [][StreamNext]_vars

\* one run of the discovery stream on an event loop that keeps running
FairStream == InitStream /\ [][StreamNext]_vars /\ WF_vars(DsProgram)

\* beat and one worker, with either pool size
InitSched == RLParked /\ TrParked /\ GocParked /\ DsParked /\ SchInit /\ SkParked /\ SpParked /\ DfParked /\ OvParked /\ EpParked /\ MrParked

SpecSched == InitSched /\ [][SchedNext]_vars

\* _calculate_trader_scores over every population and every raw metric value
InitScore == RLParked /\ TrParked /\ GocParked /\ DsParked /\ SchParked /\ SkInit /\ SpParked /\ DfParked /\ OvParked /\ EpParked /\ MrParked

SpecScore == InitScore /\ [][ScoreNext]_vars

\* scoring passes over a store of two or three traders, some of them with a
\* row of leaderboard_metrics
InitPass ==
    RLParked /\ DBInit /\ TrackerIdle /\ GocParked /\ DsParked /\ SchParked /\ SkParked /\ SpInit
    /\ DfParked /\ OvParked /\ EpParked /\ MrParked

SpecPass == InitPass /\ [][PassNext]_vars

\* detect_position_changes on every pair of snapshots
InitDiff ==
    RLParked /\ TrParked /\ GocParked /\ DsParked /\ SchParked /\ SkParked /\ SpParked
    /\ DfInit /\ OvParked /\ EpParked /\ MrParked

SpecDiff == InitDiff /\ [][DiffNext]_vars

\* one run of one entry point, with any failure at any place that can fail
InitEntry ==
    RLParked /\ TrParked /\ GocParked /\ DsParked /\ SchParked /\ SkParked /\ SpParked
    /\ DfParked /\ OvParked /\ EpInit /\ MrParked

SpecEntry == InitEntry /\ [][EntryNext]_vars

\* calls of _make_request, each answered in any way
InitClient ==
    RLParked /\ TrParked /\ GocParked /\ DsParked /\ SchParked /\ SkParked /\ SpParked
    /\ DfParked /\ OvParked /\ EpParked /\ MrInit

SpecClient == InitClient /\ [][ClientNext]_vars

(***************************************************************************)
(* Claims about the RateLimiter                                            *)
(***************************************************************************)

\* C1: for a sequence of calls of one caller, each of weight <= the cap, the
\* weight admitted within any rolling 60-second interval never exceeds
\* max_weight_per_minute.
C1_RollingWindowWithinCap ==
    rl_callers = {"c1"} => obs_sum <= max_weight_per_minute

\* C2: under concurrent callers no admitted weight is lost from
\* weight_per_minute (it equals the weight admitted in the current one-minute
\* window) and the weight admitted in one window never exceeds the cap.
C2_ConcurrentCallersSafe ==
    /\ weight_per_minute = win_total
    /\ win_total <= max_weight_per_minute

\* the accounting of C2 as it stands for a single caller (sanity of the
\* history variables win_base and win_total)
SingleCallerAccounting ==
    rl_callers = {"c1"} => C2_ConcurrentCallersSafe

(***************************************************************************)
(* Claims about the Batch Tracker                                          *)
(***************************************************************************)

\* trader t is in the batch of the cycle in progress
Selected(t) == tr_pc = "loop" /\ \E i \in 1..Len(tr_batch) : tr_batch[i] = t

\* C3: no starvation: over an infinite sequence of tracker cycles every trader
\* that stays active is selected infinitely often, whatever fetches fail and
\* whatever traders are discovered meanwhile.
C3_NoStarvation ==
    \A t \in Traders :
        ([]<>(tr_pc = "loop") /\ <>[](db_trader[t] = "active")) => []<>Selected(t)

\* C4: with a fixed population of P active traders, batch size B < P and every
\* fetch succeeding, after N cycles every trader was selected at least
\* floor(N * B / P) times.
C4_FairnessBound ==
    (steady /\ batch_size < Cardinality(ActiveTraders)) =>
        \A t \in ActiveTraders :
            sel_count[t] >= (n_cycles * batch_size) \div Cardinality(ActiveTraders)

\* three cycles of batch size 2 over three traders, every fetch succeeding
C4_Witness ==
    /\ steady /\ tr_pc = "idle"
    /\ n_cycles = 3 /\ batch_size = 2 /\ Cardinality(ActiveTraders) = 3
    /\ \A t \in ActiveTraders : sel_count[t] = 2

\* C5: when processing one trader of a cycle raised, the snapshot and the
\* last_tracked_at of every trader processed successfully in that cycle are
\* persisted once the cycle has ended.
C5_FailureIsolation ==
    (tr_pc = "idle" /\ \E t \in Traders : tr_outcome[t] = "raised") =>
        \A t \in Traders : tr_outcome[t] = "ok" =>
            /\ db_last_tracked[t] = tr_stamp[t]
            /\ \E i \in 1..Len(db_snaps[t]) : db_snaps[t][i].ts = tr_stamp[t]

(***************************************************************************)
(* Claims about the Trader Registry                                        *)
(***************************************************************************)

RowsOf(address) == {r \in traders_table : r.address = address}

\* C6: whatever the interleaving of the existence checks and the inserts of
\* concurrent get_or_create_trader calls, no two Trader rows share an address,
\* and an address a call has ended for has exactly one row.
C6_OneRowPerAddress ==
    \A a \in Addresses :
        /\ Cardinality(RowsOf(a)) <= 1
        /\ a \in goc_done => Cardinality(RowsOf(a)) = 1

\* two workers both passed the existence check for the same new address and
\* the second insert was refused
C6_Witness ==
    /\ goc_conflict
    /\ \E a \in goc_done : Cardinality(RowsOf(a)) = 1
    /\ \A w \in Workers : w_pc[w] = "idle" /\ w_received[w] = 1

(***************************************************************************)
(* Claims about the Discovery Stream                                       *)
(***************************************************************************)

\* C7: after 5 consecutive failed connection attempts no further connection
\* attempt is made and the run ends, in the service and in the Celery task.
C7_ExhaustedRetriesTerminal ==
    /\ [](consec_fail >= max_retries => ds_pc # "connecting")
    /\ (consec_fail >= max_retries) ~> (ds_pc = "done")

\* the fifth consecutive failure has happened and the run has ended
C7_Witness == consec_fail = max_retries /\ ds_pc = "done" /\ retry_count = max_retries

\* C8: a successful connection resets the attempt counter to 0, in every
\* implementation: a stream that is connected and listening counts no attempt.
C8_ConnectResetsCounter == ds_pc = "listening" => retry_count = 0

\* C9: every reconnect attempt is preceded by a backoff wait and an increment
\* of the attempt count, however the previous connection ended.
C9_ReconnectAfterBackoff ==
    (ds_pc = "connecting" /\ ds_attempted) => ds_waited

\* C10: once the service is stopped while listening, the socket is closed and
\* start() returns, even if no further message arrives.
C10_PromptStop ==
    (ds_impl = "service" /\ ~running /\ ds_pc = "listening")
        ~> (ds_pc = "done" /\ ds_socket # "open")

(***************************************************************************)
(* Claims about the scheduling of the passes                               *)
(***************************************************************************)

\* the child processes running the given task
Running(task) == {p \in PoolSlots : sch_running[p] = task}

\* C11: at most one pass of the Batch Tracker is in progress at any time, and
\* at most one pass of the Scoring Engine.
C11_NoOverlappingPasses ==
    /\ Cardinality(Running("track")) <= 1
    /\ Cardinality(Running("score")) <= 1

(***************************************************************************)
(* Claims about the composite score                                        *)
(***************************************************************************)

\* all keys of weights have entered the scores
Scored == sk_key = Len(WeightKeys)

\* C14: for every population and every combination of raw metric values, the
\* composite score of every trader lies in [0, 1].
C14_ScoreInUnitInterval ==
    Scored => trader_score >= 0 /\ trader_score <= SCORE_ONE

\* a population of three is scored and the trader followed, in the middle of
\* the population for the last key, has a score strictly between 0 and 1
C14_Witness ==
    /\ Scored
    /\ sk_n = 3
    /\ normalized_scores[sk_obs] > 0 /\ normalized_scores[sk_obs] < UNIT
    /\ trader_score > 0 /\ trader_score < SCORE_ONE

\* all traders have the same value for the key taken last
ZeroRange == sk_key > 0 /\ \A i, j \in 1..sk_n : sk_values[i] = sk_values[j]

\* C15 as stated: a weighted metric with zero population range enters the
\* composite score with a normalized term of 0 for every trader.
C15_ZeroRangeTermIsZero ==
    ZeroRange => \A i \in 1..sk_n : normalized_scores[i] = 0

\* C15 as amended: a weighted metric with zero population range normalizes to
\* 0 for every trader, which enters the score as 0, and as 1 after inversion
\* for max_drawdown; the range used as divisor is never 0.
C15_ZeroRangeTerm ==
    ZeroRange =>
        /\ normalization_params({sk_values[i] : i \in 1..sk_n}).range # 0
        /\ \A i \in 1..sk_n :
            normalized_scores[i] =
                IF WeightKeys[sk_key] = "max_drawdown" THEN UNIT ELSE 0

\* a population of one, and one of three, with a non-zero common value
C15_Witness ==
    /\ ZeroRange
    /\ sk_n \in {1, 3}
    /\ sk_values[1] = 3
    /\ WeightKeys[sk_key] \in {"max_drawdown", "max_profit_usd"}

(***************************************************************************)
(* Claims about the scoring pass                                           *)
(***************************************************************************)

\* C12: if a database failure occurs while persisting any trader's metrics,
\* the pass changes no trader's row of leaderboard_metrics.
C12_PassAtomic ==
    (sp_pc = "idle" /\ sp_save_error) => lb_rows = sp_before

\* a pass set a row in its Session, then failed on the database, and has ended
C12_Witness ==
    /\ sp_pc = "idle"
    /\ sp_save_error
    /\ sp_outcome = "rolledback"
    /\ \E t \in sp_touched : sp_computed[t] # NoRow /\ sp_computed[t] # sp_before[t]

\* the trader_data of trader t in the scored list
ScoredData(t) == sp_scored[CHOOSE i \in 1..Len(sp_scored) : sp_scored[i].trader = t]

\* a pass has ended with a commit
PassCommitted == sp_pc = "idle" /\ sp_outcome = "committed"

\* C13: after a scoring pass that commits, every active trader has a row of
\* leaderboard_metrics holding the raw metrics and the composite score of that
\* pass, created for a trader scored for the first time.
C13_RowPerActiveTrader ==
    PassCommitted =>
        \A t \in ActiveTraders :
            /\ lb_rows[t] # NoRow
            /\ \A k \in DOMAIN ScoredData(t).metrics :
                   k \in DOMAIN lb_rows[t] /\ lb_rows[t][k] = ScoredData(t).metrics[k]

\* C16: a trader whose Part A raised gets the default metrics, takes part in
\* normalization and is persisted by the pass that commits, and the other
\* traders' raw metrics are what Part A computed for them.
C16_PartAFailureIsolated ==
    PassCommitted =>
        /\ Len(sp_scored) = Cardinality(ActiveTraders)
        /\ \A t \in sp_raised :
               /\ ColumnsOf(ScoredData(t).metrics) = DefaultMetrics
               /\ lb_rows[t] = DefaultMetrics
        /\ \A t \in ActiveTraders \ sp_raised :
               ColumnsOf(ScoredData(t).metrics) = sp_computed[t]

(***************************************************************************)
(* Claims about the State Diff Engine                                      *)
(***************************************************************************)

Abs(x) == IF x < 0 THEN -x ELSE x

DiffDone == df_pc = "done"

\* the events of the result that are about the coin
EventsOf(coin) == SelectSeq(df_events, LAMBDA e : e.coin = coin)

\* the size of the coin moved by more than epsilon
ChangedBeyondEpsilon(coin) ==
    Abs(SizeOf(df_current, coin) - SizeOf(df_previous, coin)) > EPSILON

\* C17: when no coin's signed size differs by more than epsilon between the
\* two snapshots, the diff returns no event.
C17_NoChangeNoEvent ==
    (DiffDone /\ \A coin \in DiffCoins : ~ChangedBeyondEpsilon(coin)) => df_events = <<>>

\* the kind section 4.4 gives a change of size
KindOf(prev_size, curr_size) ==
    IF prev_size = 0 /\ curr_size # 0 THEN "OPEN_POSITION"
    ELSE IF prev_size # 0 /\ curr_size = 0 THEN "CLOSE_POSITION"
    ELSE IF (prev_size > 0) # (curr_size > 0) THEN "FLIPPED"
    ELSE IF Abs(curr_size) > Abs(prev_size) THEN "INCREASED"
    ELSE "DECREASED"

\* C18: every coin whose size changed beyond epsilon gets exactly one event, of
\* the kind the sign and magnitude rule gives, with the previous size, the
\* current size and the delta; no event has another kind.
C18_OneClassifiedEventPerChange ==
    DiffDone =>
        /\ \A coin \in DiffCoins : ChangedBeyondEpsilon(coin) =>
               /\ Len(EventsOf(coin)) = 1
               /\ EventsOf(coin)[1].event_type =
                      KindOf(SizeOf(df_previous, coin), SizeOf(df_current, coin))
        /\ \A i \in 1..Len(df_events) :
               df_events[i].event_type =
                   KindOf(SizeOf(df_previous, df_events[i].coin),
                          SizeOf(df_current, df_events[i].coin))

\* the coin has no position, or one of size 0
Flat(positions, coin) == SizeOf(positions, coin) = 0

EventSet(events) == {events[i] : i \in 1..Len(events)}

NewEvents(t) ==
    {db_events[t]'[i] : i \in (Len(db_events[t]) + 1)..Len(db_events[t]')}

\* the UserStateHistory rows of trader t the step commits
NewSnaps(t) ==
    {db_snaps[t]'[i] : i \in (Len(db_snaps[t]) + 1)..Len(db_snaps[t]')}

\* C22: a trader's first-ever snapshot produces no event: no event is published
\* for a trader without a prior snapshot, the commit of a first snapshot adds
\* no event, and every event committed comes from a diff of a persisted
\* snapshot of the same trader with the snapshot committed along with it.
C22_FirstSnapshotSilent ==
    /\ [](\A e \in published \cup pub_failed : db_snaps[e.trader] # <<>>)
    /\ [][\A t \in Traders :
            /\ db_snaps[t] = <<>> => NewEvents(t) = {}
            /\ \A e \in NewEvents(t) :
                   /\ e.trader = t
                   /\ \E cur \in NewSnaps(t) : cur.trader = t /\ cur.ts = e.ts
                   /\ \E d \in tr_diffs :
                          /\ d.trader = t /\ d.ts = e.ts /\ d.prev_trader = t
                          /\ \E j \in 1..Len(db_snaps[t]) :
                                 /\ db_snaps[t][j].trader = t
                                 /\ db_snaps[t][j].ts = d.prev_ts]_vars

\* one trader's first snapshot, showing an open position, is committed without
\* any event, while another trader's second snapshot came with an event
C22_Witness ==
    /\ tr_pc = "idle"
    /\ \E t, u \in Traders :
          /\ Len(db_snaps[t]) = 1
          /\ db_snaps[t][1].state["BTC"].szi # 0
          /\ db_events[t] = <<>>
          /\ Len(db_snaps[u]) >= 2
          /\ db_events[u] # <<>>
          /\ \E e \in published : e.trader = u

\* the committed UserStateHistory rows of trader t taken at instant ts
SnapsAt(t, ts) == {i \in 1..Len(db_snaps[t]) : db_snaps[t][i].ts = ts}

\* C23: every diff of the Batch Tracker compares the newly fetched state with
\* the trader's most recent persisted snapshot: once the new snapshot is
\* committed, the record it was compared with is the one immediately before
\* it, and no persisted snapshot of the trader lies between the two.
C23_NewestVsPrevious ==
    \A d \in ov_diffs :
        SnapsAt(d.trader, d.ts) # {} =>
            /\ SnapsAt(d.trader, d.prev_ts) # {}
            /\ d.prev_ts < d.ts
            /\ \A i \in 1..Len(db_snaps[d.trader]) :
                   ~(d.prev_ts < db_snaps[d.trader][i].ts /\ db_snaps[d.trader][i].ts < d.ts)

\* the traders of the batch the step selects
Batch == {tr_batch'[i] : i \in 1..Len(tr_batch')}

\* the traders with a Trader row that has is_active set
IsActive == {t \in Traders : db_trader[t] = "active"}

\* C24: a cycle selects exactly min(batch_size, number of active traders)
\* distinct active traders, those with the oldest last_tracked_at, the
\* never-tracked ones first; no inactive trader is ever selected or fetched.
C24_OldestActiveSelected ==
    /\ [][(tr_pc = "idle" /\ tr_pc' = "loop") =>
            /\ Len(tr_batch') = Min(batch_size, Cardinality(IsActive))
            /\ Cardinality(Batch) = Len(tr_batch')
            /\ Batch \subseteq IsActive
            /\ \A chosen \in Batch, other \in IsActive \ Batch :
                   \/ db_last_tracked[chosen] = NULL
                   \/ /\ db_last_tracked[other] # NULL
                      /\ db_last_tracked[chosen] <= db_last_tracked[other]
            /\ \A i, j \in 1..Len(tr_batch') :
                   (i < j /\ db_last_tracked[tr_batch'[j]] = NULL) =>
                       db_last_tracked[tr_batch'[i]] = NULL]_vars
    /\ [](\A t \in Traders :
              (Selected(t) \/ (tr_pc = "loop" /\ tr_outcome[t] # "none")) => t \in IsActive)

\* a batch of two out of three active traders: the never-tracked one first,
\* then the one tracked longest ago, the one tracked last left out
C24_Witness ==
    /\ tr_pc = "loop" /\ tr_idx = 1 /\ Len(tr_batch) = 2
    /\ Cardinality(IsActive) = 3
    /\ db_last_tracked[tr_batch[1]] = NULL
    /\ db_last_tracked[tr_batch[2]] # NULL
    /\ \E other \in IsActive :
          /\ other # tr_batch[1] /\ other # tr_batch[2]
          /\ db_last_tracked[other] > db_last_tracked[tr_batch[2]]

\* the traders whose fetch failed in the cycle in progress or just ended
FetchFailed == {t \in Traders : tr_outcome[t] = "fetch_failed"}

\* C25: a trader whose state fetch failed gets no snapshot and no event
\* persisted in that cycle and keeps its last_tracked_at; the loop goes on to
\* the remaining traders of the batch; and the next cycle selects the failed
\* trader again.
C25_FetchFailureSkips ==
    /\ [][\A t \in FetchFailed :
            /\ db_snaps[t]' = db_snaps[t]
            /\ db_events[t]' = db_events[t]
            /\ db_last_tracked[t]' = db_last_tracked[t]]_vars
    /\ [][\A t \in Traders :
            (tr_outcome[t] # "fetch_failed" /\ tr_outcome[t]' = "fetch_failed") =>
                tr_pc' = "loop" /\ tr_idx' = tr_idx + 1]_vars
    /\ []((tr_pc = "loop" /\ tr_idx > Len(tr_batch) /\ ~ses_failed) =>
              \A i \in 1..Len(tr_batch) : tr_outcome[tr_batch[i]] \in {"ok", "fetch_failed"})
    /\ [][(tr_pc = "idle" /\ tr_pc' = "loop") =>
            \A t \in FetchFailed : t \in IsActive => t \in Batch]_vars

\* C26: last_tracked_at of a trader changes only when a cycle of the Batch
\* Tracker in which its fetch succeeded commits, together with a new snapshot
\* of that trader; the discovery of a trader does not change it; so in every
\* committed state last_tracked_at is non-null exactly for the traders that
\* have a snapshot.
C26_LastTrackedWithSnapshot ==
    /\ [](\A t \in Traders : (db_last_tracked[t] # NULL) <=> (db_snaps[t] # <<>>))
    /\ [][\A t \in Traders :
            db_last_tracked[t]' # db_last_tracked[t] =>
                /\ tr_pc = "loop" /\ tr_pc' = "idle"
                /\ tr_outcome[t] = "ok"
                /\ db_last_tracked[t]' # NULL
                /\ \E snap \in NewSnaps(t) : snap.trader = t]_vars
    /\ [][\A t \in Traders :
            db_trader[t]' # db_trader[t] => db_last_tracked[t]' = db_last_tracked[t]]_vars

\* a cycle has committed in which one trader was tracked and the fetch of
\* another, never tracked, failed, while a third active trader was not selected
C26_Witness ==
    /\ tr_pc = "idle"
    /\ \E t, u, n \in Traders :
          /\ tr_outcome[t] = "ok" /\ db_last_tracked[t] # NULL /\ db_snaps[t] # <<>>
          /\ tr_outcome[u] = "fetch_failed" /\ db_last_tracked[u] = NULL /\ db_snaps[u] = <<>>
          /\ tr_outcome[n] = "none" /\ db_trader[n] = "active" /\ db_last_tracked[n] = NULL

(***************************************************************************)
(* Claims about the messages of the discovery stream                       *)
(***************************************************************************)

\* the step handled an inbound message
Handled == ds_tick' # ds_tick

\* C27: a malformed inbound message (not JSON, or one whose handling raises)
\* is dropped: the store is unchanged, the connection stays open and listening,
\* the retry counter is not incremented; and every well-formed message handled,
\* also after a dropped one on the same connection, is processed into the
\* Trader Registry.
C27_MalformedDropped ==
    /\ [][(Handled /\ Malformed(ds_last')) =>
            /\ UNCHANGED dbVars
            /\ ds_pc' = "listening" /\ ds_socket' = "open"
            /\ retry_count' = retry_count /\ consec_fail' = consec_fail]_vars
    /\ [][(Handled /\ ds_last'.kind = "trades") =>
            /\ db_trader'[ds_last'.user] = "active"
            /\ ds_pc' = "listening" /\ ds_socket' = "open"]_vars

\* after a dropped message, a trades message on the same connection has put a
\* new trader into the registry
C27_Witness ==
    /\ ds_dropped
    /\ ds_pc = "listening" /\ ds_socket = "open"
    /\ ds_last.kind = "trades"
    /\ db_trader[ds_last.user] = "active"

\* the events the diff of trader t returned at instant ts, recomputed from the
\* committed snapshot of that instant and the one before it
EventsOfDiff(t, ts) ==
    UNION {EventSet(detect_position_changes(db_snaps[t][i - 1].state,
                                            db_snaps[t][i].state, ts, t)) :
              i \in {j \in SnapsAt(t, ts) : j > 1}}

\* C29: a publish that raises does not block persistence: the step in which it
\* raised adds the trader's rows to the Session and goes on to the next trader
\* of the batch, and once the cycle has committed, the event whose publish
\* raised, every other event of the same diff, the snapshot of that instant and
\* last_tracked_at of the trader are in the store.
C29_PublishFailureKeepsPersistence ==
    /\ [][(pub_failed' # pub_failed /\ ~ses_failed') =>
            /\ tr_idx' = tr_idx + 1
            /\ tr_pc' = "loop"
            /\ \A e \in pub_failed' \ pub_failed :
                   /\ \E i \in 1..Len(ses_events') : ses_events'[i] = e
                   /\ \E r \in ses_snaps' : r.trader = e.trader /\ r.ts = e.ts
                   /\ [trader |-> e.trader, ts |-> e.ts] \in ses_tracked']_vars
    /\ []((tr_pc = "idle" /\ tr_ended = "committed") =>
            \A e \in pub_failed :
               /\ e \in EventSet(db_events[e.trader])
               /\ SnapsAt(e.trader, e.ts) # {}
               /\ EventsOfDiff(e.trader, e.ts) \subseteq EventSet(db_events[e.trader])
               /\ e \in EventsOfDiff(e.trader, e.ts)
               /\ db_last_tracked[e.trader] = e.ts
               /\ \A u \in Traders : tr_outcome[u] = "ok" =>
                      /\ SnapsAt(u, tr_stamp[u]) # {}
                      /\ db_last_tracked[u] = tr_stamp[u])

\* a committed cycle in which the publish of the first of a trader's two events
\* raised and the second was published, and the trader after it in the batch
\* was tracked as well
C29_Witness ==
    /\ tr_pc = "idle"
    /\ tr_ended = "committed"
    /\ \E e \in pub_failed, f \in published :
          /\ e.trader = f.trader
          /\ e.ts = f.ts
          /\ \E i \in 1..Len(db_events[e.trader]) - 1 :
                 db_events[e.trader][i] = e /\ db_events[e.trader][i + 1] = f
          /\ db_last_tracked[e.trader] = e.ts
          /\ \E u \in Traders \ {e.trader} :
                 /\ tr_outcome[u] = "ok"
                 /\ tr_stamp[u] > e.ts
                 /\ SnapsAt(u, tr_stamp[u]) # {}

(***************************************************************************)
(* Claims about the backoff of the Discovery Stream                        *)
(***************************************************************************)

\* C30: on each failed connection the discovery stream waits
\* min(60, 2^attempt) seconds before the next attempt, attempt being the
\* number of connections that failed in a row so far; the wait is longer than
\* the one before it in the same row of failures, unless that one was 60
\* already, and is never more than 60.
C30_BackoffByConsecutiveFailures ==
    [][(ds_pc # "backoff" /\ ds_pc' = "backoff") =>
          /\ ds_wait_time' = Min(MAX_WAIT, Pow2(ds_failures'))
          /\ ds_wait_time' <= MAX_WAIT
          /\ ds_failures' > 1 => ds_wait_time' >= Min(MAX_WAIT, 2 * Pow2(ds_failures' - 1))]_vars

(***************************************************************************)
(* Claims about the entry points                                           *)
(***************************************************************************)

\* C28: no failure is fatal: whatever fails, of the network, the database and
\* the publisher, and wherever, no exception leaves an entry point, and when
\* the entry point has returned every Session it opened is closed.  Nor does
\* an entry point ever hold a second Session while one is open.
C28_NoFailureFatal ==
    /\ ep_pc # "propagated"
    /\ ep_pc = "return" => (ep_sessions = 0 /\ ep_exc = "none")
    /\ ep_sessions <= 1

\* the Batch Tracker entry point has returned, its Session closed, after the
\* network, the publisher and the database all failed, the rollback of the
\* except block failed too, and the exception went through the finally block
\* to the outermost except
C28_Witness ==
    /\ ep_kind = "track"
    /\ ep_pc = "return"
    /\ ep_faults = Failures
    /\ ep_outer
    /\ ep_sessions = 0

(***************************************************************************)
(* Claims about the windows of the RateLimiter                             *)
(***************************************************************************)

\* weight_per_minute as a call finds it once the window check has been made
CountedWeight == IF now - last_reset >= WINDOW THEN 0 ELSE weight_per_minute

\* C31: a call whose weight would push the weight of the window above the cap
\* is not admitted but suspended; it is admitted only when at least 60 s have
\* passed since the window in which it was made started, and then against
\* counters that hold nothing but the call itself; and weight_per_minute is
\* never above the cap.
C31_SuspendedUntilRollover ==
    /\ [][n_calls' # n_calls =>
            \/ /\ rl_pc' = rl_pc
               /\ weight_per_minute' > CountedWeight
               /\ weight_per_minute' <= max_weight_per_minute
            \/ \E c \in Callers :
                  /\ rl_pc[c] = "idle" /\ rl_pc'[c] = "sleeping"
                  /\ CountedWeight + rl_weight'[c] > max_weight_per_minute
                  /\ weight_per_minute' = CountedWeight]_vars
    /\ [][\A c \in Callers :
            (rl_pc[c] = "sleeping" /\ rl_pc'[c] = "idle") =>
                /\ now >= rl_since[c] + WINDOW
                /\ weight_per_minute' = rl_weight[c]
                /\ requests_per_minute' = 1
                /\ last_reset' = now]_vars
    /\ [](weight_per_minute <= max_weight_per_minute)

\* the second call of a run, of weight 1200, was suspended in the window that
\* started at 0, and has been admitted 60 s after the window started
C31_Witness ==
    /\ rl_pc["c1"] = "idle"
    /\ rl_slept["c1"]
    /\ now = WINDOW
    /\ last_reset = WINDOW
    /\ weight_per_minute = max_weight_per_minute
    /\ win_total = max_weight_per_minute
    /\ n_calls = 2

\* the step resets the counters: last_reset is set anew, by the window check
\* or by a coroutine that returns from its sleep
CountersReset ==
    \/ last_reset' # last_reset
    \/ \E c \in Callers : rl_pc[c] = "sleeping" /\ rl_pc'[c] = "idle"

\* C32: the counters are reset only when a full window of 60 s has passed
\* since the previous reset, never earlier, whatever the calls and however the
\* coroutines interleave.
C32_ResetOnlyAtBoundary ==
    [][CountersReset => now - last_reset >= WINDOW]_vars

(***************************************************************************)
(* Claims about the API client                                             *)
(***************************************************************************)

\* C33: _make_request turns every transport failure into a failure value: no
\* exception reaches its caller, a call answered with an error status, with no
\* response or with a body that is not JSON returns None, it returns the body
\* otherwise, and it issues at most one HTTP request.
C33_FailuresBecomeNone ==
    /\ mr_raised = "none"
    /\ mr_pc # "raised"
    /\ mr_posts <= 1
    /\ mr_pc = "returned" =>
          /\ mr_posts = 1
          /\ mr_response.kind # "ok" => mr_result = "None"
          /\ (mr_response.kind = "ok" /\ mr_response.body # "null") =>
                 mr_result = mr_response.body

\* the third call of a run was answered with a body that is not JSON and has
\* returned None after one request
C33_Witness ==
    /\ mr_calls = MaxRequests
    /\ mr_pc = "returned"
    /\ mr_response.kind = "invalid_body"
    /\ mr_result = "None"
    /\ mr_posts = 1

(***************************************************************************)
(* Claims about the subscriptions of the Discovery Stream                  *)
(***************************************************************************)

\* the step reads an inbound message
MessageRead == ds_tick' # ds_tick

\* C34: on every connection, the first and each later one, the stream sends
\* one subscribe message per tracked symbol, starting from none, before it
\* reads any message; and a send that fails closes the connection and is
\* counted and waited for like any transport error (or ends the run of a
\* service that was asked to stop).
C34_SubscribeBeforeListening ==
    /\ [](ds_pc = "listening" => ds_sub = Len(coins_to_track))
    /\ [](ds_sub <= Len(coins_to_track))
    /\ [][(ds_pc = "connecting" /\ ds_pc' = "subscribing") => ds_sub' = 0]_vars
    /\ [][ds_sub' # ds_sub =>
            \/ ds_sub' = ds_sub + 1 /\ ds_pc = "subscribing"
            \/ ds_sub' = 0 /\ ds_socket' # "open"
            \/ ds_sub' = 0 /\ ds_pc = "connecting"]_vars
    /\ [][MessageRead =>
            ds_pc = "listening" /\ ds_sub = Len(coins_to_track)]_vars
    /\ [][(ds_pc = "subscribing" /\ ds_pc' \notin {"subscribing", "listening"}) =>
            /\ ds_socket' = "closed"
            /\ \/ /\ ds_pc' = "backoff"
                  /\ retry_count' = retry_count + 1
                  /\ ds_wait_time' = Min(MAX_WAIT, Pow2(retry_count'))
               \/ ds_pc' = "done" /\ ds_impl = "service" /\ ~running]_vars

\* the Celery task lost a connection, connected again, subscribed to both
\* symbols again and has read a trades message on the second connection
C34_Witness ==
    /\ ds_impl = "task"
    /\ ds_pc = "listening"
    /\ retry_count = 1
    /\ ds_failures = 0
    /\ ds_sub = Len(coins_to_track)
    /\ ds_last.kind = "trades"
    /\ ~ds_dropped

(***************************************************************************)
(* Claims about the formula of the composite score                         *)
(***************************************************************************)

\* the population of the key taken in the step
KeyValues == {sk_values'[i] : i \in 1..sk_n}

\* the term a key contributes by the formula: the weight, in twentieths, times
\* (v - min) / (max - min) over the population, 0 when all values are equal,
\* subtracted from 1 for the drawdown
FormulaTerm(key, v) ==
    LET lo == MinOf(KeyValues)
        hi == MaxOf(KeyValues)
        normalized == IF hi = lo THEN 0 ELSE ((v - lo) * UNIT) \div (hi - lo)
        weight == CASE key = "win_rate" -> 6
                    [] key = "total_volume_usd" -> 4
                    [] key = "max_drawdown" -> 5
                    [] key = "avg_risk_ratio" -> 3
                    [] key = "max_profit_usd" -> 2
    IN  weight * (IF key = "max_drawdown" THEN UNIT - normalized ELSE normalized)

\* each of the five metrics enters the sum once, with the term of the formula
SumByFormula ==
    /\ [][sk_key' # sk_key =>
            /\ sk_key' = sk_key + 1
            /\ trader_score' =
                   trader_score + FormulaTerm(WeightKeys[sk_key'], sk_values'[sk_obs])]_vars
    /\ [](Len(WeightKeys) = 5 /\ sk_key <= 5)
    /\ [](stored_score >= 0 <=> Scored)

\* C35 as stated: the composite score of a trader equals the weighted sum of
\* the clamped min-max normalized metrics, weights 0.30, 0.20, 0.25, 0.15 and
\* 0.10, the drawdown term inverted, min and max taken over the population.
C35_ScoreIsWeightedSum ==
    /\ SumByFormula
    /\ [](Scored => stored_score * SCORE_ONE = trader_score * DECIMALS)

\* C35 as amended: the composite score of a trader is that weighted sum
\* rounded to four decimals: it differs from the sum by at most 0.00005.
C35_ScoreIsRoundedWeightedSum ==
    /\ SumByFormula
    /\ [](Scored =>
            /\ 2 * (stored_score * SCORE_ONE - trader_score * DECIMALS) <= SCORE_ONE
            /\ 2 * (trader_score * DECIMALS - stored_score * SCORE_ONE) <= SCORE_ONE)

\* a population of three is scored; the trader followed is a third of the way
\* up its range of max_profit_usd, the sum has more than four decimals and the
\* score stored is not the sum
C35_Witness ==
    /\ Scored
    /\ sk_n = 3
    /\ 3 * normalized_scores[sk_obs] = UNIT
    /\ stored_score * SCORE_ONE # trader_score * DECIMALS
    /\ stored_score > 0

(***************************************************************************)
(* Claims about the events the Batch Tracker announces                     *)
(***************************************************************************)

\* C36: every event published on the trade_events channel during a cycle is
\* persisted: once the cycle has ended, the event is among the committed
\* events of its trader.
C36_PublishedIsPersisted ==
    (tr_pc = "idle" /\ tr_ended # "none") =>
        \A e \in published : e \in EventSet(db_events[e.trader])

\* the committed OPEN_POSITION and CLOSE_POSITION events of trader t about coin
OpenClose(t, coin) ==
    {e \in EventSet(db_events[t]) :
        e.coin = coin /\ e.event_type \in {"OPEN_POSITION", "CLOSE_POSITION"}}

\* C37: no position change is recorded twice: in the committed events of a
\* trader, taken in the order of their timestamps, the OPEN_POSITION and
\* CLOSE_POSITION events of one coin alternate, and each is stored once.
C37_OpenCloseAlternate ==
    \A t \in Traders, coin \in Coins :
        /\ \A e, f \in OpenClose(t, coin) :
               (e.ts < f.ts /\ ~\E g \in OpenClose(t, coin) : e.ts < g.ts /\ g.ts < f.ts)
                   => e.event_type # f.event_type
        /\ \A i, j \in 1..Len(db_events[t]) :
               (i # j /\ db_events[t][i].coin = coin /\ db_events[t][j].coin = coin)
                   => db_events[t][i].ts # db_events[t][j].ts

(***************************************************************************)
(* Claims about the stop of the discovery service                          *)
(***************************************************************************)

\* stop has been requested of the standalone service
StopRequested == ds_impl = "service" /\ ~running

\* C38: once stop has been requested the service starts no new work: no
\* message is handled and the Trader Registry is not written, no connection
\* attempt is started and no backoff wait is begun; this includes a request
\* made during a backoff wait, after which the wait ends and the run does too.
\* (An attempt already under way when the request is made is not new work: it
\* may still connect and subscribe, and ends at its first message or failure.)
C38_NoNewWorkAfterStop ==
    /\ [][StopRequested =>
            /\ db_trader' = db_trader
            /\ ds_last' = ds_last /\ ds_tick' = ds_tick
            /\ ~(ds_pc # "connecting" /\ ds_pc' = "connecting")
            /\ ds_pc' # "backoff" \/ ds_pc = "backoff"]_vars
    /\ [][(StopRequested /\ ds_pc = "loop") => ds_pc' \in {"loop", "done"}]_vars
    /\ [](StopRequested /\ ds_stop_pc \in {"backoff", "loop", "done"} =>
             ds_pc \in {"backoff", "loop", "done"})

\* stop was requested during the backoff wait after a failed attempt; the wait
\* has ended and the run has too, without another attempt
C38_Witness ==
    /\ StopRequested
    /\ ds_stop_pc = "backoff"
    /\ ds_pc = "done"
    /\ ds_waited
    /\ retry_count = 1
    /\ consec_fail = 1

(***************************************************************************)
(* Claims about malformed snapshots                                        *)
(***************************************************************************)

\* the snapshot has a position without a size
MalformedState(state) == \E coin \in DOMAIN state : state[coin].szi = NoSzi

\* the comparisons made with a malformed snapshot on either side
MalformedDiffs ==
    {d \in tr_diffs :
        \E i, j \in 1..Len(db_snaps[d.trader]) :
            /\ db_snaps[d.trader][i].ts = d.prev_ts
            /\ db_snaps[d.trader][j].ts = d.ts
            /\ MalformedState(db_snaps[d.trader][i].state)
                  \/ MalformedState(db_snaps[d.trader][j].state)}

\* C39: detect_position_changes never raises: when a snapshot is malformed
\* (a position without szi) it returns the events it had built, so the step
\* that ran the comparison adds the trader's new snapshot and last_tracked_at
\* to the Session, and once the cycle has committed both are in the store.
C39_MalformedSnapshotStillTracked ==
    /\ [][\A d \in tr_diffs' \ tr_diffs :
            /\ tr_idx' = tr_idx + 1
            /\ tr_outcome'[d.trader] = "ok"
            /\ \E r \in ses_snaps' : r.trader = d.trader /\ r.ts = d.ts
            /\ [trader |-> d.trader, ts |-> d.ts] \in ses_tracked']_vars
    /\ [](tr_pc = "idle" =>
             \A d \in tr_diffs :
                /\ SnapsAt(d.trader, d.ts) # {}
                /\ db_last_tracked[d.trader] >= d.ts
                /\ EventsOfDiff(d.trader, d.ts) \subseteq EventSet(db_events[d.trader]))

\* a committed cycle that compared a malformed new snapshot, ETH without szi,
\* with a well-formed record in which the trader was flat: the event of BTC,
\* built before the KeyError, the new snapshot and last_tracked_at are stored
C39_Witness ==
    /\ tr_pc = "idle"
    /\ tr_ended = "committed"
    /\ \E d \in MalformedDiffs :
          /\ db_last_tracked[d.trader] = d.ts
          /\ \E j \in SnapsAt(d.trader, d.ts) :
                 /\ db_snaps[d.trader][j].state["ETH"].szi = NoSzi
                 /\ db_snaps[d.trader][j].state["BTC"].szi = 1
          /\ \E e \in EventSet(db_events[d.trader]) :
                 e.ts = d.ts /\ e.coin = "BTC" /\ e.event_type = "OPEN_POSITION"
          /\ ~\E e \in EventSet(db_events[d.trader]) : e.ts = d.ts /\ e.coin = "ETH"

====
